---- MODULE Spec2Model ----
(***************************************************************************)
(* Model of the two converters of the Iff2Bpl repository:                  *)
(*   bpl2iff  (src/unnamed/part_000)  raw Amiga bitplanes -> ILBM container *)
(*   iff2bpl  (src/Iff2bpl.c, second copy, lines 353..796)                 *)
(*            ILBM container -> .bpl / .pal / .chk / .bpf artifacts         *)
(* Buffers and files are sequences of bytes (0..255).  The code indexes    *)
(* from 0; At(s, i) is the byte at C index i.                              *)
(***************************************************************************)
EXTENDS Integers, Sequences, FiniteSets, TLC

\* ------------------------------------------------------------------------
\* Bounds of the model
\* ------------------------------------------------------------------------
MaxSegs == 2       \* segments per row buffer in the codec specification
MaxShort == 3      \* short segment lengths 1..MaxShort (long ones: 127..129)
MaxWidth == 17     \* the widest picture, in pixels
MaxHeight == 2     \* picture heights 1..MaxHeight
MaxPlanes == 3     \* plane counts 1..MaxPlanes (and the larger ones of BigPlanes)
MaxColWidth == 3   \* -t column widths 1..MaxColWidth

\* ------------------------------------------------------------------------
\* Byte and bit arithmetic
\* ------------------------------------------------------------------------
Byte == 0..255

At(s, i) == s[i + 1]

Min(a, b) == IF a < b THEN a ELSE b

Pow2(k) == 2 ^ k

\* bit k of v
Bit(v, k) == (v \div Pow2(k)) % 2

\* (uint8_t)v for any integer v
ToUint8(v) == v % 256

\* (int8_t)b for a byte b
ToInt8(b) == IF b >= 128 THEN b - 256 ELSE b

\* n bytes of value v (memset)
Fill(n, v) == [i \in 1..n |-> v]

\* the n bytes of s starting at C index off (memcpy source)
Slice(s, off, n) == SubSeq(s, off + 1, off + n)

\* ------------------------------------------------------------------------
\* PackBits encoder of bpl2iff (part_000:80-115)
\* ------------------------------------------------------------------------
\* the cap on a repeat run and on a literal packet
\* (MaxPacketBad: half the cap)
MaxPacketBad == 128 \div 2
MaxPacket == 128

\* part_000:88-89  the run scan: the loop leaves run_len at the first value
\* in 1.. for which one of its three conditions fails
\* (RunScanBad: the scan stops one byte before the cap)
RunScanBad(src, si) ==
  CHOOSE run_len \in 1..(MaxPacket - 1) :
    /\ \A k \in 1..(run_len - 1) :
          si + k < Len(src) /\ At(src, si) = At(src, si + k)
    /\ ~(si + run_len < Len(src) /\ At(src, si) = At(src, si + run_len)
         /\ run_len < MaxPacket - 1)
RunScan(src, si) ==
  CHOOSE run_len \in 1..MaxPacket :
    /\ \A k \in 1..(run_len - 1) :
          si + k < Len(src) /\ At(src, si) = At(src, si + k)
    /\ ~(si + run_len < Len(src) /\ At(src, si) = At(src, si + run_len)
         /\ run_len < MaxPacket)

\* part_000:102  "a run of 3 starts here"
RunOf3Starts(src, si) ==
  si + 2 < Len(src) /\ At(src, si) = At(src, si + 1) /\ At(src, si) = At(src, si + 2)

\* part_000:98-104  the literal scan: lit_len when the loop ends, by its
\* condition failing or by the break
LitScan(src, si) ==
  CHOOSE lit_len \in 0..MaxPacket :
    /\ \A k \in 0..(lit_len - 1) :
          si + k < Len(src) /\ ~RunOf3Starts(src, si + k)
    /\ \/ ~(si + lit_len < Len(src) /\ lit_len < MaxPacket)
       \/ RunOf3Starts(src, si + lit_len)

\* part_000:93  control byte of a repeat packet
\* (RunControlBad: the count itself negated, -run_len)
RunControlBad(run_len) == ToUint8(0 - run_len)
RunControl(run_len) == ToUint8(1 - run_len)

\* part_000:105  control byte of a literal packet
\* (LitControlBad: the length itself)
LitControlBad(lit_len) == ToUint8(lit_len)
LitControl(lit_len) == ToUint8(lit_len - 1)

\* part_000:86-109  one iteration of the encoder loop at cursor si:
\* the packet emitted and the new cursor
EncodeStep(src, si) ==
  LET run_len == RunScan(src, si) IN
  IF run_len >= 3
  THEN [pkt |-> <<RunControl(run_len), At(src, si)>>, si |-> si + run_len,
        kind |-> "run", n |-> run_len]
  ELSE LET lit_len == LitScan(src, si) IN
       [pkt |-> <<LitControl(lit_len)>> \o Slice(src, si, lit_len),
        si |-> si + lit_len, kind |-> "lit", n |-> lit_len]

RECURSIVE EncodeLoop(_, _, _)
EncodeLoop(src, si, out) ==
  IF si < Len(src)
  THEN LET st == EncodeStep(src, si) IN EncodeLoop(src, st.si, out \o st.pkt)
  ELSE out

packbits_encode(src) == EncodeLoop(src, 0, <<>>)

\* part_000:86-109  the iterations of the encoder loop from cursor si, one
\* record per iteration; an iteration that leaves the cursor where it was
\* would repeat for ever and is the last one recorded
RECURSIVE EncodeTrace(_, _)
EncodeTrace(src, si) ==
  IF si < Len(src)
  THEN LET st == EncodeStep(src, si) IN
       IF st.si = si THEN <<st>> ELSE <<st>> \o EncodeTrace(src, st.si)
  ELSE <<>>

\* part_000:82  the capacity of the output buffer
max_out(src_len) == src_len + (src_len \div 128) + 16

\* ------------------------------------------------------------------------
\* PackBits decoder of iff2bpl (Iff2bpl.c:412-436)
\* ------------------------------------------------------------------------
\* Iff2bpl.c:419  a literal count cut to the source bytes that are left
ClampSrc(si, count, src_len) ==
  IF si + count > src_len THEN src_len - si ELSE count

\* Iff2bpl.c:420, 429  a count cut to the room that is left in the row
\* (ClampDstBad: the count taken as it is)
ClampDstBad(di, count, dst_len) == count
ClampDst(di, count, dst_len) ==
  IF di + count > dst_len THEN dst_len - di ELSE count

\* Iff2bpl.c:426  the count of a repeat packet with control byte n
\* (RepeatCountBad: one repetition short)
RepeatCountBad(n) == 0 - n
RepeatCount(n) == (0 - n) + 1

\* Iff2bpl.c:415-433  one pass of the loop body with the cursor at si and di
\* bytes produced: the new cursor, the bytes appended (out), whether the loop
\* is left by the break, and how far the pass reads the source (rd: highest
\* index read + 1) and writes the output (wr: highest index written + 1)
DecompStep(src, dst_len, si, di) ==
  LET src_len == Len(src)
      n == ToInt8(At(src, si))
      s1 == si + 1
  IN
  IF n >= 0
  THEN LET count == ClampDst(di, ClampSrc(s1, n + 1, src_len), dst_len)
       IN [si |-> s1 + count, out |-> Slice(src, s1, count), brk |-> FALSE,
           rd |-> s1 + count, wr |-> IF count > 0 THEN di + count ELSE 0]
  ELSE IF n # -128
  THEN IF s1 >= src_len
       THEN [si |-> s1, out |-> <<>>, brk |-> TRUE, rd |-> s1, wr |-> 0]
       ELSE LET count == ClampDst(di, RepeatCount(n), dst_len)
            IN [si |-> s1 + 1, out |-> Fill(count, At(src, s1)), brk |-> FALSE,
                rd |-> s1 + 1, wr |-> IF count > 0 THEN di + count ELSE 0]
  ELSE [si |-> s1, out |-> <<>>, brk |-> FALSE, rd |-> s1, wr |-> 0]

\* Iff2bpl.c:413-435  the loop.  The result: di bytes produced (dst), si
\* source bytes consumed
RECURSIVE DecompLoop(_, _, _, _)
DecompLoop(src, dst_len, si, dst) ==
  IF ~(si < Len(src) /\ Len(dst) < dst_len)
  THEN [di |-> Len(dst), si |-> si, dst |-> dst]
  ELSE LET st == DecompStep(src, dst_len, si, Len(dst)) IN
       IF st.brk THEN [di |-> Len(dst), si |-> st.si, dst |-> dst]
       ELSE DecompLoop(src, dst_len, st.si, dst \o st.out)

decompress_packbits(src, dst_len) == DecompLoop(src, dst_len, 0, <<>>)

\* ------------------------------------------------------------------------
\* PackBits decoder of bpl2iff (part_000:118-139)
\* ------------------------------------------------------------------------
\* part_000:119-138  the loop; a packet that does not fit ends it with 0
RECURSIVE StrictLoop(_, _, _, _)
StrictLoop(src, dst_len, si, dst) ==
  LET src_len == Len(src)
      di == Len(dst)
  IN
  IF ~(si < src_len /\ di < dst_len) THEN [ret |-> di, dst |-> dst]
  ELSE
    LET n == ToInt8(At(src, si))
        s1 == si + 1
    IN
    IF n >= 0
    THEN LET count == n + 1 IN
         IF s1 + count > src_len THEN [ret |-> 0, dst |-> dst]
         ELSE IF di + count > dst_len THEN [ret |-> 0, dst |-> dst]
         ELSE StrictLoop(src, dst_len, s1 + count, dst \o Slice(src, s1, count))
    ELSE IF n # -128
    THEN LET count == (-n) + 1 IN
         IF s1 >= src_len THEN [ret |-> 0, dst |-> dst]
         ELSE IF di + count > dst_len THEN [ret |-> 0, dst |-> dst]
         ELSE StrictLoop(src, dst_len, s1 + 1, dst \o Fill(count, At(src, s1)))
    ELSE StrictLoop(src, dst_len, s1, dst)

packbits_decode(src, dst_len) == StrictLoop(src, dst_len, 0, <<>>)

\* ------------------------------------------------------------------------
\* bpl2iff: sizes derived from the command line (part_000:195-216)
\* ------------------------------------------------------------------------
\* part_000:196
row_bytes(xsize) == ((xsize + 15) \div 16) * 2

\* part_000:197
bytes_per_row_min(xsize) == (xsize + 7) \div 8

\* part_000:166  -t <colwidth> switches the transpose on when colwidth > 0
transpose_cols(a) == a.transpose_col_width > 0

\* part_000:198-203
columns(a) ==
  IF transpose_cols(a)
  THEN (bytes_per_row_min(a.xsize) + a.transpose_col_width - 1)
         \div a.transpose_col_width
  ELSE 0

\* part_000:199-208
plane_input_size(a) ==
  IF transpose_cols(a)
  THEN columns(a) * a.transpose_col_width * a.ysize
  ELSE row_bytes(a.xsize) * a.ysize

\* part_000:209
plane_size(a) == row_bytes(a.xsize) * a.ysize

\* part_000:210
expected_size(a) == plane_input_size(a) * a.bplnum

\* part_000:213-214
num_colors(bplnum) == IF Pow2(bplnum) > 256 THEN 256 ELSE Pow2(bplnum)

\* part_000:215
palette_size(a) == num_colors(a.bplnum) * 2

\* part_000:216
expected_size_with_palette(a) == expected_size(a) + palette_size(a)

\* ------------------------------------------------------------------------
\* Big-endian writers and chunk tags
\* ------------------------------------------------------------------------
\* part_000:58-65
write_be32(v) ==
  <<(v \div 16777216) % 256, (v \div 65536) % 256, (v \div 256) % 256, v % 256>>

\* part_000:68-73
write_be16(v) == <<(v \div 256) % 256, v % 256>>

TagFORM == <<70, 79, 82, 77>>
TagILBM == <<73, 76, 66, 77>>
TagBMHD == <<66, 77, 72, 68>>
TagCMAP == <<67, 77, 65, 80>>
TagBODY == <<66, 79, 68, 89>>

\* fwrite at file position pos of an existing file (used after fseek)
WriteAt(file, pos, bytes) ==
  [i \in 1..(IF pos + Len(bytes) > Len(file) THEN pos + Len(bytes) ELSE Len(file)) |->
     IF i > pos /\ i <= pos + Len(bytes) THEN bytes[i - pos]
     ELSE IF i <= Len(file) THEN file[i] ELSE 0]

\* ------------------------------------------------------------------------
\* bpl2iff: palette detection and read (part_000:230-285)
\* ------------------------------------------------------------------------
\* part_000:231-240  "palette" / "nopalette" / "mismatch"
\* (DetectPaletteBad: any file of at least the pixel size is taken)
DetectPaletteBad(fsize, a) ==
  IF fsize = expected_size_with_palette(a) THEN "palette"
  ELSE IF fsize >= expected_size(a) THEN "nopalette"
  ELSE "mismatch"
DetectPalette(fsize, a) ==
  IF fsize = expected_size_with_palette(a) THEN "palette"
  ELSE IF fsize = expected_size(a) THEN "nopalette"
  ELSE "mismatch"

\* part_000:275-277  colour word i from the palette bytes
PaletteWord(palette_bytes, i) ==
  At(palette_bytes, i * 2) * 256 + At(palette_bytes, i * 2 + 1)

\* ------------------------------------------------------------------------
\* bpl2iff: container header, BMHD and CMAP (part_000:296-375)
\* ------------------------------------------------------------------------
\* part_000:296-299
FormHeader == TagFORM \o write_be32(0) \o TagILBM

\* part_000:303-334  the BMHD chunk; compression is written as 0 here
\* (BmhdChunkBad: height written before width)
BmhdChunkBad(a) ==
  TagBMHD \o write_be32(20)
  \o write_be16(a.ysize % 65536) \o write_be16(a.xsize % 65536)
  \o write_be16(0) \o write_be16(0)
  \o <<ToUint8(a.bplnum), 0, 0, 0>>
  \o write_be16(0)
  \o <<1, 1>>
  \o write_be16(a.xsize % 65536) \o write_be16(a.ysize % 65536)
BmhdChunk(a) ==
  TagBMHD \o write_be32(20)
  \o write_be16(a.xsize % 65536) \o write_be16(a.ysize % 65536)
  \o write_be16(0) \o write_be16(0)
  \o <<ToUint8(a.bplnum), 0, 0, 0>>
  \o write_be16(0)
  \o <<1, 1>>
  \o write_be16(a.xsize % 65536) \o write_be16(a.ysize % 65536)

\* part_000:353-355  a 4-bit channel expanded to 8 bits
\* (ScaleUpBad: the nibble shifted, not replicated)
ScaleUpBad(nibble) == ToUint8(nibble * 16)
ScaleUp(nibble) == ToUint8(nibble * 17)

\* part_000:346-357  the CMAP entry of a custom colour word
CustomRGB(color) ==
  <<ScaleUp((color \div 256) % 16), ScaleUp((color \div 16) % 16),
    ScaleUp(color % 16)>>

\* part_000:361-369  the default palette entry i
\* (DefaultRGBBad: entry 0 white as well)
DefaultRGBBad(i) == <<255, 255, 255>>
DefaultRGB(i) == IF i = 0 THEN <<0, 0, 0>> ELSE <<255, 255, 255>>

\* part_000:345-369  the 3*n payload bytes of the CMAP, entry by entry
CmapEntries(custom, pal, n) ==
  [k \in 1..(3 * n) |->
     LET i == (k - 1) \div 3
         rgb == IF custom THEN CustomRGB(At(pal, i)) ELSE DefaultRGB(i)
     IN rgb[((k - 1) % 3) + 1]]

\* part_000:337-375  the CMAP chunk with its pad byte
CmapChunk(a, custom, pal) ==
  LET cmap_size == num_colors(a.bplnum) * 3 IN
  TagCMAP \o write_be32(cmap_size)
  \o CmapEntries(custom, pal, num_colors(a.bplnum))
  \o (IF cmap_size % 2 # 0 THEN <<0>> ELSE <<>>)

\* ------------------------------------------------------------------------
\* bpl2iff: plane normalisation (part_000:381-441)
\* ------------------------------------------------------------------------
\* part_000:400  source index of the transpose for (c, y, b)
\* (TransposeSidxBad: the byte index b within the column entry left out)
TransposeSidxBad(a, c, y, b) ==
  (c * a.ysize + y) * a.transpose_col_width
TransposeSidx(a, c, y, b) ==
  (c * a.ysize + y) * a.transpose_col_width + b

\* part_000:403  destination index of the transpose for (c, y, b)
TransposeDidx(a, c, y, b) ==
  y * row_bytes(a.xsize) + c * a.transpose_col_width + b

\* part_000:397-404  the loop positions <<c, y, b>> at which the transpose
\* stores: those that pass the tests of lines 401 and 404
TransposeStores(a) ==
  {w \in (0..(columns(a) - 1)) \X (0..(a.ysize - 1))
         \X (0..(a.transpose_col_width - 1)) :
     /\ TransposeSidx(a, w[1], w[2], w[3]) < plane_input_size(a)
     /\ TransposeDidx(a, w[1], w[2], w[3]) < plane_size(a)}

\* part_000:393-408  one plane of the transposed input.  The plane is zeroed,
\* then the loops over c, y, b store in that order, so that the last store to
\* an index (the one of the largest loop position) stays.
TransposePlane(a, src_plane) ==
  LET stores == TransposeStores(a)
      order(w) == (w[1] * a.ysize + w[2]) * a.transpose_col_width + w[3]
  IN [d \in 1..plane_size(a) |->
        LET here == {w \in stores : TransposeDidx(a, w[1], w[2], w[3]) = d - 1} IN
        IF here = {} THEN 0
        ELSE LET last == CHOOSE w \in here : \A v \in here : order(v) <= order(w)
             IN At(src_plane, TransposeSidx(a, last[1], last[2], last[3]))]

\* part_000:415-424  source offset of row segment (y, p) of interleaved input
InterleavedSrcOffset(a, y, p) ==
  (y * a.bplnum + p) * bytes_per_row_min(a.xsize)

\* part_000:430-434  source offset of row y of plane p of plane-major input
NonInterleavedSrcOffset(a, y, p) ==
  p * plane_input_size(a) + y * bytes_per_row_min(a.xsize)

\* part_000:421-423, 436-437  a row of the plane buffer: the minimal row bytes
\* copied from the input, the rest of the row zeroed
PaddedRow(a, buf, off) ==
  Slice(buf, off, bytes_per_row_min(a.xsize))
  \o Fill(row_bytes(a.xsize) - bytes_per_row_min(a.xsize), 0)

\* part_000:389-441  plane_buffers: plane p at p*plane_size, row y at y*row_bytes
NormalisePlanes(a, buf) ==
  LET transposed ==
        [p \in 0..(a.bplnum - 1) |->
           TransposePlane(a, Slice(buf, p * plane_input_size(a), plane_input_size(a)))]
  IN
  [k \in 1..(a.bplnum * plane_size(a)) |->
     LET p == (k - 1) \div plane_size(a)
         y == ((k - 1) % plane_size(a)) \div row_bytes(a.xsize)
         b == (k - 1) % row_bytes(a.xsize)
     IN IF transpose_cols(a)
        THEN At(transposed[p], (k - 1) % plane_size(a))
        ELSE IF a.interleaved
        THEN At(PaddedRow(a, buf, InterleavedSrcOffset(a, y, p)), b)
        ELSE At(PaddedRow(a, buf, NonInterleavedSrcOffset(a, y, p)), b)]

\* ------------------------------------------------------------------------
\* bpl2iff: BODY assembly and compression (part_000:443-514)
\* ------------------------------------------------------------------------
\* part_000:456  offset in plane_buffers of row y of plane p
PlaneRowOffset(xsize, ysize, y, p) ==
  p * (row_bytes(xsize) * ysize) + y * row_bytes(xsize)

\* part_000:453-460  the interleaved BODY from the per-plane buffers
AssembleBody(planes, xsize, ysize, bplnum) ==
  [k \in 1..(row_bytes(xsize) * ysize * bplnum) |->
     LET seg == (k - 1) \div row_bytes(xsize)
         y == seg \div bplnum
         p == seg % bplnum
         b == (k - 1) % row_bytes(xsize)
     IN At(planes, PlaneRowOffset(xsize, ysize, y, p) + b)]

\* part_000:485  row segment number seg = y*bplnum + p of the BODY
RowSegment(body, rb, seg) == Slice(body, seg * rb, rb)

\* part_000:483-508  the per-row encodings, concatenated
RECURSIVE EncodeRows(_, _, _, _)
EncodeRows(body, rb, seg, nsegs) ==
  IF seg >= nsegs THEN <<>>
  ELSE packbits_encode(RowSegment(body, rb, seg))
       \o EncodeRows(body, rb, seg + 1, nsegs)

\* part_000:466-514  body_to_write
BodyToWrite(a, body) ==
  IF a.use_rle
  THEN EncodeRows(body, row_bytes(a.xsize), 0, a.ysize * a.bplnum)
  ELSE body

\* part_000:517-525  the BODY chunk with its pad byte
BodyChunk(payload) ==
  TagBODY \o write_be32(Len(payload)) \o payload
  \o (IF Len(payload) % 2 = 1 THEN <<0>> ELSE <<>>)

\* part_000:538  the compression byte patched into the BMHD
\* (CompByteBad: the byte left at 0)
CompByteBad(use_rle) == 0
CompByte(use_rle) == IF use_rle THEN 1 ELSE 0

\* part_000:537  file offset of BMHD.compression
CompOffset == 30

\* part_000:533-534  the FORM size from the end position of the file (the
\* files of the model are far shorter than 2^32 bytes)
\* (FormSizeBad: the 4 bytes of the ILBM tag left out as well)
FormSizeBad(endpos) == endpos - 12
FormSize(endpos) == endpos - 8

\* ------------------------------------------------------------------------
\* iff2bpl: file reads (Iff2bpl.c:398-409, 593-631)
\* ------------------------------------------------------------------------
\* bytes an fread of n bytes at position pos delivers
Avail(file, pos, n) ==
  IF pos >= Len(file) THEN 0 ELSE Min(n, Len(file) - pos)

\* Iff2bpl.c:398-402  value read; 0 when fewer than 4 bytes are left
read_be32(file, pos) ==
  IF Avail(file, pos, 4) # 4 THEN 0
  ELSE At(file, pos) * 16777216 + At(file, pos + 1) * 65536
       + At(file, pos + 2) * 256 + At(file, pos + 3)

\* Iff2bpl.c:405-409  value read; 0 when fewer than 2 bytes are left
read_be16(file, pos) ==
  IF Avail(file, pos, 2) # 2 THEN 0
  ELSE At(file, pos) * 256 + At(file, pos + 1)

\* Iff2bpl.c:600  the chunk size rounded up to even.  The lengths of the
\* model stay far below 2^31, so the 32-bit wrap of chunk_size + 1 at
\* 0xFFFFFFFF is out of its reach.
\* (EvenSizeBad: the declared size taken as it is)
EvenSizeBad(chunk_size) == chunk_size
EvenSize(chunk_size) ==
  IF chunk_size % 2 = 1 THEN chunk_size + 1 ELSE chunk_size

\* a field the program has not stored yet (uninitialised memory)
Undef == -1

\* Iff2bpl.c:586  BMHD bmhd; a local without initialiser
UninitBMHD ==
  [width |-> Undef, height |-> Undef, numPlanes |-> Undef, compression |-> Undef]

\* Iff2bpl.c:605-617  the BMHD fields read at pos.  The 16-bit readers give 0
\* on a short read, the one-byte freads leave the field as it was.
ReadBMHD(file, pos, old) ==
  LET n == Avail(file, pos, 20)
      one(off, prev) == IF off + 1 <= n THEN At(file, pos + off) ELSE prev
      two(off) == IF off + 2 <= n THEN read_be16(file, pos + off) ELSE 0
  IN [width |-> two(0), height |-> two(2),
      numPlanes |-> one(8, old.numPlanes),
      compression |-> one(10, old.compression)]

\* Iff2bpl.c:619  fseek(f, size - sizeof(BMHD), SEEK_CUR): a seek to a
\* negative position fails and leaves the position where it was
SeekCur(pos, off) == IF pos + off < 0 THEN pos ELSE pos + off

\* Iff2bpl.c:621-623, 626-628  malloc(size) and fread: the bytes the file
\* does not deliver keep the indeterminate content g of the allocation
ReadChunkData(file, pos, size, g) ==
  Slice(file, pos, Avail(file, pos, size)) \o Fill(size - Avail(file, pos, size), g)

\* ------------------------------------------------------------------------
\* iff2bpl: palette conversion (Iff2bpl.c:645-673)
\* ------------------------------------------------------------------------
\* Iff2bpl.c:655-657  an 8-bit channel rescaled to 4 bits
\* (ScaleDownBad: rounding to the nearest instead of truncating)
ScaleDownBad(c) == ToUint8((c * 16 + 128) \div 256)
ScaleDown(c) == ToUint8((c * 16) \div 256)

\* Iff2bpl.c:659-662  the 12-bit colour word of an RGB triple
PalWord(r, g, b) ==
  ((ScaleDown(r) % 16) * 256) + ((ScaleDown(g) % 16) * 16) + (ScaleDown(b) % 16)

\* Iff2bpl.c:663  the two bytes of the word exchanged
SwapBytes(word) == ((word \div 256) + (word * 256)) % 65536

\* The programs are built for a little-endian host (README.md: gcc ... -o
\* iff2bpl.exe): a uint16_t lies in memory low byte first.
HostBytes(word) == <<word % 256, word \div 256>>

\* Iff2bpl.c:648-670  the bytes of the .pal artifact
PalBytes(cmap, cmap_size) ==
  LET num_entries == cmap_size \div 3 IN
  [k \in 1..(num_entries * 2) |->
     LET i == (k - 1) \div 2
         word == SwapBytes(PalWord(At(cmap, i * 3), At(cmap, i * 3 + 1),
                                   At(cmap, i * 3 + 2)))
     IN HostBytes(word)[((k - 1) % 2) + 1]]

\* ------------------------------------------------------------------------
\* iff2bpl: BODY decoding (Iff2bpl.c:693-742)
\* ------------------------------------------------------------------------
\* Iff2bpl.c:715-728  the replay loop: source bytes the row loop skips
RECURSIVE Replay(_, _, _, _, _)
Replay(body, rb, src_offset, consumed, produced) ==
  IF ~(produced < rb /\ src_offset + consumed < Len(body)) THEN consumed
  ELSE LET n == ToInt8(At(body, src_offset + consumed)) IN
       IF n >= 0
       THEN Replay(body, rb, src_offset, consumed + 1 + (n + 1), produced + (n + 1))
       ELSE IF n # -128
       THEN Replay(body, rb, src_offset, consumed + 1 + 1, produced + ((-n) + 1))
       ELSE Replay(body, rb, src_offset, consumed + 1, produced)

\* bytes beyond the end of an allocation, as far as a row decode can reach
Beyond(rb, g) == Fill(140 + 2 * rb, g)

\* Iff2bpl.c:704-709  the source of one row decode.  With src_offset beyond
\* body_size the length body_size - src_offset wraps around and the decoder
\* reads past the buffer.
RowSource(body, rb, src_offset, g) ==
  IF src_offset <= Len(body)
  THEN Slice(body, src_offset, Len(body) - src_offset)
  ELSE Slice(body \o Beyond(rb, g), src_offset, Len(body) + 140 + 2 * rb - src_offset)

\* Iff2bpl.c:702-731  the row loop.  out gets row_bytes bytes per row: the
\* decoded bytes, then what the allocation held (g).  rows lists, per row,
\* the cursor, the decoder's result and the cursor advance.
RECURSIVE RowLoop(_, _, _, _, _, _, _)
RowLoop(body, rb, row, total_rows, src_offset, g, acc) ==
  IF row >= total_rows THEN acc
  ELSE
    LET over == src_offset > Len(body) /\ rb > 0
        dec == decompress_packbits(RowSource(body, rb, src_offset, g), rb)
        consumed == Replay(body, rb, src_offset, 0, 0)
    IN RowLoop(body, rb, row + 1, total_rows, src_offset + consumed, g,
               [out |-> acc.out \o dec.dst \o Fill(rb - dec.di, g),
                ub |-> acc.ub \/ over,
                rows |-> Append(acc.rows,
                                [src_offset |-> src_offset, written |-> dec.di,
                                 used |-> dec.si, consumed |-> consumed])])

DecodeBody(body, h, g) ==
  RowLoop(body, row_bytes(h.width), 0, h.height * h.numPlanes, 0, g,
          [out |-> <<>>, ub |-> FALSE, rows |-> <<>>])

\* ------------------------------------------------------------------------
\* iff2bpl: chunky conversion (Iff2bpl.c:456-491)
\* ------------------------------------------------------------------------
\* a read of buf at index i; beyond the allocation it finds g
ReadBuf(buf, i, g) == IF i < Len(buf) THEN At(buf, i) ELSE g

\* Iff2bpl.c:468  bit of the row byte that holds pixel column x
\* (bit_offsetBad: least significant bit first)
bit_offsetBad(x) == x % 8
bit_offset(x) == 7 - (x % 8)

\* Iff2bpl.c:473  pixel_value |= (bit_val << plane), in 8 bits
OrBit(pixel_value, bit_val, plane) ==
  IF bit_val = 1 /\ plane < 8 /\ Bit(pixel_value, plane) = 0
  THEN pixel_value + Pow2(plane) ELSE pixel_value

\* Iff2bpl.c:465-475  the plane loop for pixel (x, y)
RECURSIVE PixelLoop(_, _, _, _, _, _, _, _, _)
PixelLoop(planar, width, height, num_planes, x, y, plane, pixel_value, g) ==
  IF plane >= num_planes THEN pixel_value
  ELSE
    LET rb == row_bytes(width)
        plane_offset == (y * num_planes + plane) * rb
        byte_offset == x \div 8
        next ==
          IF plane_offset + byte_offset < height * num_planes * rb
          THEN OrBit(pixel_value,
                     Bit(ReadBuf(planar, plane_offset + byte_offset, g), bit_offset(x)),
                     plane)
          ELSE pixel_value
    IN PixelLoop(planar, width, height, num_planes, x, y, plane + 1, next, g)

\* Iff2bpl.c:479-484  each of the 4 low bits doubled
\* (DoubleBitsBad: bits 4..7 leak into the two low bits)
DoubleBitsBad(pixel_value) ==
  LET two(bit) == IF Bit(pixel_value, bit) = 1 THEN 3 * Pow2(bit * 2) ELSE 0
      high == IF pixel_value >= 16 THEN 3 ELSE 0
  IN (two(0) + two(1) + two(2) + two(3) + high) % 256
DoubleBits(pixel_value) ==
  LET two(bit) == IF Bit(pixel_value, bit) = 1 THEN 3 * Pow2(bit * 2) ELSE 0
  IN two(0) + two(1) + two(2) + two(3)

\* Iff2bpl.c:456-491  the chunky surface, chunky_data[y*width + x]
convert_to_chunky(planar, width, height, num_planes, double_bits, g) ==
  [k \in 1..(width * height) |->
     LET x == (k - 1) % width
         y == (k - 1) \div width
         pixel_value == PixelLoop(planar, width, height, num_planes, x, y, 0, 0, g)
     IN IF double_bits THEN DoubleBits(pixel_value) ELSE pixel_value]

\* the conversion reads planar_data beyond its allocation
ChunkyOverrun(planar, width, height, num_planes) ==
  \E y \in 0..(height - 1) : \E plane \in 0..(num_planes - 1) :
    \E x \in 0..(width - 1) :
      (y * num_planes + plane) * row_bytes(width) + (x \div 8) >= Len(planar)

\* ------------------------------------------------------------------------
\* iff2bpl: non-interleaved conversion (Iff2bpl.c:494-509)
\* ------------------------------------------------------------------------
\* Iff2bpl.c:502
NiSrcOffset(width, num_planes, plane, y) ==
  (y * num_planes + plane) * row_bytes(width)

\* Iff2bpl.c:504
\* (NiDstOffsetBad: plane and row exchanged)
NiDstOffsetBad(width, height, plane, y) ==
  (y * (row_bytes(width) * height)) + (plane * row_bytes(width))
NiDstOffset(width, height, plane, y) ==
  (plane * (row_bytes(width) * height)) + (y * row_bytes(width))

\* Iff2bpl.c:494-509 with the buffer of Iff2bpl.c:773-774: size bytes are
\* allocated (content g); stores that fall into the allocation are kept
convert_to_noninterleaved(inter, size, width, height, num_planes, g) ==
  LET rb == row_bytes(width)
      copies == (0..(num_planes - 1)) \X (0..(height - 1))
  IN [d \in 1..size |->
        LET here == {c \in copies :
                       /\ NiDstOffset(width, height, c[1], c[2]) <= d - 1
                       /\ d - 1 < NiDstOffset(width, height, c[1], c[2]) + rb}
        IN IF here = {} THEN g
           ELSE LET last == CHOOSE c \in here :
                              \A e \in here : e[1] * height + e[2] <= c[1] * height + c[2]
                IN ReadBuf(inter,
                           NiSrcOffset(width, num_planes, last[1], last[2])
                           + (d - 1 - NiDstOffset(width, height, last[1], last[2])), g)]

\* a memcpy of the conversion leaves one of the two allocations
NiOverrun(inter, size, width, height, num_planes) ==
  \E plane \in 0..(num_planes - 1) : \E y \in 0..(height - 1) :
    \/ NiSrcOffset(width, num_planes, plane, y) + row_bytes(width) > Len(inter)
    \/ NiDstOffset(width, height, plane, y) + row_bytes(width) > size

\* ------------------------------------------------------------------------
\* State of the two programs
\* ------------------------------------------------------------------------
VARIABLES
  pc,                  \* position of the running program
  args,                \* bpl2iff command line: xsize, ysize, bplnum, ...
  infile,              \* bytes of the raw input file of bpl2iff
  has_custom_palette,  \* part_000:217
  custom_palette,      \* part_000:218  colour words read from the input
  data,                \* part_000:242  pixel bytes read from the input
  outfile,             \* the container file of bpl2iff, NoFile until created
  plane_buffers,       \* part_000:381
  body_uncomp,         \* part_000:445
  body_to_write,       \* part_000:466
  exit_code,           \* exit status of bpl2iff, Running until it returns
  opts,                \* iff2bpl command line: -c, -cd, -ni
  iff,                 \* bytes of the input file of iff2bpl, NoFile if none
  fpos,                \* ftell(f) of iff2bpl
  bmhd,                \* Iff2bpl.c:586
  found_bmhd, found_cmap, found_body,    \* Iff2bpl.c:585
  cmap_data,           \* Iff2bpl.c:587  (cmap_size is its length)
  body_data,           \* Iff2bpl.c:589  (body_size is its length)
  final_planar_data,   \* Iff2bpl.c:684  Null or the planar buffer
  rle_rows,            \* per row of the RLE loop: cursor, written, used, consumed
  pal, bpl, chk, bpf,  \* the output artifacts, NoFile until written
  ub,                  \* a read or store has left its allocation
  exit_iff,            \* exit status of iff2bpl, Running until it returns
  cpc, crow, cenc, cdec, \* codec specification: position, row, encoding, decoding
  dpc,                 \* decoder specification: position of decompress_packbits
  dsrc, dlen,          \* Iff2bpl.c:412  src (src_len is its length) and dst_len
  dcur,                \* Iff2bpl.c:413  si and the di bytes of dst produced so far
  dret,                \* Iff2bpl.c:435  the count returned, Running until then
  dstrict              \* part_000:118  result of packbits_decode on the same call

ivars == <<opts, iff, fpos, bmhd, found_bmhd, found_cmap, found_body, cmap_data,
           body_data, final_planar_data, rle_rows, pal, bpl, chk, bpf, ub, exit_iff>>

dvars == <<dpc, dsrc, dlen, dcur, dret, dstrict>>

cvars == <<cpc, crow, cenc, cdec, dvars>>

bvars == <<args, infile, has_custom_palette, custom_palette, data, outfile,
           plane_buffers, body_uncomp, body_to_write, exit_code>>

NoFile == <<-1>>
Running == -1
Null == <<-2>>
Crashed == -2

NoOpts == [create_chunky |-> FALSE, create_chunky_doubled |-> FALSE,
           create_noninterleaved |-> FALSE]

\* iff2bpl not started
IdleIff ==
  /\ opts = NoOpts
  /\ iff = NoFile
  /\ fpos = 0
  /\ bmhd = UninitBMHD
  /\ found_bmhd = FALSE /\ found_cmap = FALSE /\ found_body = FALSE
  /\ cmap_data = Null
  /\ body_data = Null
  /\ final_planar_data = Null
  /\ rle_rows = <<>>
  /\ pal = NoFile /\ bpl = NoFile /\ chk = NoFile /\ bpf = NoFile
  /\ ub = FALSE
  /\ exit_iff = Running

\* bpl2iff not run
IdleBpl ==
  /\ args = [xsize |-> 0, ysize |-> 0, bplnum |-> 0, interleaved |-> FALSE,
             transpose_col_width |-> 0, use_rle |-> FALSE]
  /\ infile = NoFile
  /\ has_custom_palette = FALSE
  /\ custom_palette = <<>>
  /\ data = <<>>
  /\ outfile = NoFile
  /\ plane_buffers = <<>>
  /\ body_uncomp = <<>>
  /\ body_to_write = <<>>
  /\ exit_code = Running

\* ------------------------------------------------------------------------
\* Inputs of bpl2iff
\* ------------------------------------------------------------------------
Widths == {1, 8, 9, 16, MaxWidth}
BigPlanes == {5, 8, 9}

BplArgs ==
  {a \in [xsize : Widths \cup {0}, ysize : 1..MaxHeight,
          bplnum : (1..MaxPlanes) \cup BigPlanes,
          interleaved : BOOLEAN, transpose_col_width : 0..MaxColWidth,
          use_rle : BOOLEAN] :
     \* -i is not consulted when -t is given
     /\ transpose_cols(a) => ~a.interleaved
     \* the large plane counts and the missing width on the smallest pictures
     /\ a.bplnum \in BigPlanes \ (1..MaxPlanes) => a.ysize = 1 /\ a.xsize \in {8, MaxWidth}
     /\ a.xsize = 0 => a.ysize = 1 /\ a.bplnum = 1 /\ ~a.use_rle}

\* byte i of an input file of content kind k
InputByte(k, i) ==
  IF k = 1 THEN (i * 37 + 11) % 256
  ELSE ((i \div 4) * 85 + 255) % 256

ContentKinds == {1, 2}

\* input file lengths around the two accepted ones
InputLengths(a) ==
  {expected_size(a) - 1, expected_size(a), expected_size(a) + 1,
   expected_size_with_palette(a) - 1, expected_size_with_palette(a)}

InitBpl ==
  /\ pc = "b_args"
  /\ args \in BplArgs
  /\ \E k \in ContentKinds : \E n \in InputLengths(args) :
       infile = [i \in 1..n |-> InputByte(k, i - 1)]
  /\ has_custom_palette = FALSE
  /\ custom_palette = <<>>
  /\ data = <<>>
  /\ outfile = NoFile
  /\ plane_buffers = <<>>
  /\ body_uncomp = <<>>
  /\ body_to_write = <<>>
  /\ exit_code = Running

\* ------------------------------------------------------------------------
\* bpl2iff main, step by step
\* ------------------------------------------------------------------------
\* part_000:180-184  mandatory parameters
B_CheckArgs ==
  /\ pc = "b_args"
  /\ IF args.xsize <= 0 \/ args.ysize <= 0 \/ args.bplnum <= 0
     THEN pc' = "b_exit" /\ exit_code' = 1
     ELSE pc' = "b_read" /\ UNCHANGED exit_code
  /\ UNCHANGED <<ivars, cvars, args, infile, has_custom_palette, custom_palette, data,
                 outfile, plane_buffers, body_uncomp, body_to_write>>

\* part_000:220-286  size check, pixel data and trailing palette
B_ReadInput ==
  /\ pc = "b_read"
  /\ LET fsize == Len(infile)
         kind == DetectPalette(fsize, args)
     IN IF kind = "mismatch"
        THEN /\ pc' = "b_exit"
             /\ exit_code' = 1
             /\ UNCHANGED <<has_custom_palette, custom_palette, data>>
        ELSE /\ pc' = "b_header"
             /\ has_custom_palette' = (kind = "palette")
             /\ data' = Slice(infile, 0, expected_size(args))
             /\ custom_palette' =
                  IF kind = "palette"
                  THEN LET palette_bytes ==
                             Slice(infile, expected_size(args), palette_size(args))
                       IN [i \in 1..num_colors(args.bplnum) |->
                             PaletteWord(palette_bytes, i - 1)]
                  ELSE <<>>
             /\ UNCHANGED exit_code
  /\ UNCHANGED <<ivars, cvars, args, infile, outfile, plane_buffers, body_uncomp, body_to_write>>

\* part_000:289-334  output file created, FORM header and BMHD chunk
B_WriteHeader ==
  /\ pc = "b_header"
  /\ outfile' = FormHeader \o BmhdChunk(args)
  /\ pc' = "b_cmap"
  /\ UNCHANGED <<ivars, cvars, args, infile, has_custom_palette, custom_palette, data,
                 plane_buffers, body_uncomp, body_to_write, exit_code>>

\* part_000:336-375  CMAP chunk
B_WriteCmap ==
  /\ pc = "b_cmap"
  /\ outfile' = outfile \o CmapChunk(args, has_custom_palette, custom_palette)
  /\ pc' = "b_planes"
  /\ UNCHANGED <<ivars, cvars, args, infile, has_custom_palette, custom_palette, data,
                 plane_buffers, body_uncomp, body_to_write, exit_code>>

\* part_000:381-441  per-plane buffers with padded rows
B_Normalise ==
  /\ pc = "b_planes"
  /\ plane_buffers' = NormalisePlanes(args, data)
  /\ pc' = "b_assemble"
  /\ UNCHANGED <<ivars, cvars, args, infile, has_custom_palette, custom_palette, data,
                 outfile, body_uncomp, body_to_write, exit_code>>

\* part_000:443-460  interleaved BODY
B_Assemble ==
  /\ pc = "b_assemble"
  /\ body_uncomp' = AssembleBody(plane_buffers, args.xsize, args.ysize, args.bplnum)
  /\ pc' = "b_encode"
  /\ UNCHANGED <<ivars, cvars, args, infile, has_custom_palette, custom_palette, data,
                 outfile, plane_buffers, body_to_write, exit_code>>

\* part_000:462-514  optional PackBits compression, row by row
B_Encode ==
  /\ pc = "b_encode"
  /\ body_to_write' = BodyToWrite(args, body_uncomp)
  /\ pc' = "b_body"
  /\ UNCHANGED <<ivars, cvars, args, infile, has_custom_palette, custom_palette, data,
                 outfile, plane_buffers, body_uncomp, exit_code>>

\* part_000:516-525  BODY chunk
B_WriteBody ==
  /\ pc = "b_body"
  /\ outfile' = outfile \o BodyChunk(body_to_write)
  /\ pc' = "b_patch_comp"
  /\ UNCHANGED <<ivars, cvars, args, infile, has_custom_palette, custom_palette, data,
                 plane_buffers, body_uncomp, body_to_write, exit_code>>

\* part_000:532-539  compression byte patched at offset 30
B_PatchCompression ==
  /\ pc = "b_patch_comp"
  /\ outfile' = WriteAt(outfile, CompOffset, <<CompByte(args.use_rle)>>)
  /\ pc' = "b_patch_size"
  /\ UNCHANGED <<ivars, cvars, args, infile, has_custom_palette, custom_palette, data,
                 plane_buffers, body_uncomp, body_to_write, exit_code>>

\* part_000:533-534, 541-549  FORM size patched at offset 4 (endpos is the
\* file length: the patch at offset 30 does not extend the file), exit 0
B_PatchFormSize ==
  /\ pc = "b_patch_size"
  /\ outfile' = WriteAt(outfile, 4, write_be32(FormSize(Len(outfile))))
  /\ pc' = "b_done"
  /\ exit_code' = 0
  /\ UNCHANGED <<ivars, cvars, args, infile, has_custom_palette, custom_palette, data,
                 plane_buffers, body_uncomp, body_to_write>>

NextBpl ==
  \/ B_CheckArgs \/ B_ReadInput \/ B_WriteHeader \/ B_WriteCmap
  \/ B_Normalise \/ B_Assemble \/ B_Encode \/ B_WriteBody
  \/ B_PatchCompression \/ B_PatchFormSize

\* ------------------------------------------------------------------------
\* Inputs of iff2bpl run on a container that bpl2iff did not write
\* ------------------------------------------------------------------------
TagJUNK == <<74, 85, 78, 75>>

\* a chunk as it lies in the file: tag, length, payload, pad byte
MkChunk(tag, payload) ==
  tag \o write_be32(Len(payload)) \o payload
  \o (IF Len(payload) % 2 = 1 THEN <<0>> ELSE <<>>)

IffHeaders ==
  {h \in [width : {8, MaxWidth}, height : 1..MaxHeight, numPlanes : {1, 2},
          compression : {0, 1, 2}] :
     h.width = MaxWidth => h.numPlanes = 1}

MkBMHD(h) ==
  MkChunk(TagBMHD,
          write_be16(h.width) \o write_be16(h.height) \o write_be16(0) \o write_be16(0)
          \o <<h.numPlanes, 0, h.compression, 0>> \o write_be16(0) \o <<1, 1>>
          \o write_be16(h.width) \o write_be16(h.height))

\* channel values around the 16-value buckets
Channels == <<0, 15, 16, 17, 127, 128, 239, 240, 255, 100, 200>>

\* a CMAP of 3 entries (9 payload bytes and a pad byte)
MkCMAP(k) ==
  MkChunk(TagCMAP, [j \in 1..9 |-> Channels[((j * k + k) % 11) + 1]])

\* a BODY: the raw planes, their per-row encoding, a stream that ends one
\* byte early ("short"), or one that ends after its first two bytes ("stub")
BodyKinds == {"raw", "packed", "short", "stub"}

MkBODY(h, k, kind) ==
  LET raw == [i \in 1..(row_bytes(h.width) * h.height * h.numPlanes) |->
                InputByte(k, i - 1)]
      packed == EncodeRows(raw, row_bytes(h.width), 0, h.height * h.numPlanes)
  IN MkChunk(TagBODY,
             IF kind = "raw" THEN raw
             ELSE IF kind = "packed" THEN packed
             ELSE IF kind = "short" THEN SubSeq(packed, 1, Len(packed) - 1)
             ELSE SubSeq(packed, 1, 2))

MkJUNK == MkChunk(TagJUNK, <<1, 2, 3>>)

IffLayouts ==
  {<<"BMHD", "CMAP", "BODY">>, <<"CMAP", "JUNK", "BMHD", "BODY">>,
   <<"BODY", "JUNK", "BMHD">>, <<"CMAP", "BODY">>, <<"JUNK", "CMAP">>}

RECURSIVE MkChunks(_, _, _, _)
MkChunks(layout, h, k, kind) ==
  IF layout = <<>> THEN <<>>
  ELSE (CASE Head(layout) = "BMHD" -> MkBMHD(h)
          [] Head(layout) = "CMAP" -> MkCMAP(k)
          [] Head(layout) = "BODY" -> MkBODY(h, k, kind)
          [] OTHER -> MkJUNK)
       \o MkChunks(Tail(layout), h, k, kind)

\* the container; cut bytes are missing at its end
MkContainer(layout, h, k, kind, cut) ==
  LET chunks == MkChunks(layout, h, k, kind)
      whole == TagFORM \o write_be32(4 + Len(chunks)) \o TagILBM \o chunks
  IN SubSeq(whole, 1, Len(whole) - cut)

Cuts == {0, 3}

OptSets ==
  {NoOpts,
   [create_chunky |-> TRUE, create_chunky_doubled |-> FALSE, create_noninterleaved |-> TRUE],
   [create_chunky |-> FALSE, create_chunky_doubled |-> TRUE, create_noninterleaved |-> FALSE]}

InitIff ==
  /\ pc = "i_open"
  /\ opts \in OptSets
  /\ \/ iff = NoFile
     \/ \E layout \in IffLayouts, h \in IffHeaders, k \in ContentKinds,
           kind \in BodyKinds, cut \in Cuts :
          /\ kind = "stub" => cut = 0
          /\ iff = MkContainer(layout, h, k, kind, cut)
  /\ fpos = 0
  /\ bmhd = UninitBMHD
  /\ found_bmhd = FALSE /\ found_cmap = FALSE /\ found_body = FALSE
  /\ cmap_data = Null
  /\ body_data = Null
  /\ final_planar_data = Null
  /\ rle_rows = <<>>
  /\ pal = NoFile /\ bpl = NoFile /\ chk = NoFile /\ bpf = NoFile
  /\ ub = FALSE
  /\ exit_iff = Running

\* what uninitialised memory may hold
GarbageBytes == {0, 255}
GarbageHeaders ==
  [width : {8}, height : {1}, numPlanes : {1}, compression : {0, 1, 3}]

\* the header as the program reads it: an uninitialised field holds garbage
Resolve(h, gh) ==
  [f \in DOMAIN h |-> IF h[f] = Undef THEN gh[f] ELSE h[f]]

\* ------------------------------------------------------------------------
\* iff2bpl main, step by step
\* ------------------------------------------------------------------------
\* iff2bpl is started on the container bpl2iff has written
I_Run ==
  /\ pc = "b_done"
  /\ iff' = outfile
  /\ opts' \in OptSets
  /\ pc' = "i_open"
  /\ UNCHANGED <<bvars, cvars, fpos, bmhd, found_bmhd, found_cmap, found_body,
                 cmap_data, body_data, final_planar_data, rle_rows, pal, bpl,
                 chk, bpf, ub, exit_iff>>

\* Iff2bpl.c:551-595  open the input, skip the 12 bytes of the FORM header
I_Open ==
  /\ pc = "i_open"
  /\ IF iff = NoFile
     THEN pc' = "i_done" /\ exit_iff' = 1 /\ UNCHANGED fpos
     ELSE pc' = "i_chunk" /\ fpos' = Avail(iff, 0, 12) /\ UNCHANGED exit_iff
  /\ UNCHANGED <<bvars, cvars, opts, iff, bmhd, found_bmhd, found_cmap, found_body,
                 cmap_data, body_data, final_planar_data, rle_rows, pal, bpl,
                 chk, bpf, ub>>

\* Iff2bpl.c:597-598  the chunk loop ends
LoopEnds == ~(fpos < Len(iff)) \/ Avail(iff, fpos, 4) # 4

\* Iff2bpl.c:598-600  tag, position behind the chunk header, even size
chunk_id == Slice(iff, fpos, 4)
DataPos == fpos + 4 + Avail(iff, fpos + 4, 4)
size == EvenSize(read_be32(iff, fpos + 4))

I_EndChunks ==
  /\ pc = "i_chunk"
  /\ LoopEnds
  /\ pc' = "i_cmap"
  /\ UNCHANGED <<bvars, cvars, opts, iff, fpos, bmhd, found_bmhd, found_cmap,
                 found_body, cmap_data, body_data, final_planar_data, rle_rows,
                 pal, bpl, chk, bpf, ub, exit_iff>>

\* Iff2bpl.c:603-619
I_ReadBMHD ==
  /\ pc = "i_chunk"
  /\ ~LoopEnds
  /\ chunk_id = TagBMHD
  /\ bmhd' = ReadBMHD(iff, DataPos, bmhd)
  /\ found_bmhd' = TRUE
  /\ fpos' = SeekCur(DataPos + Avail(iff, DataPos, 20), size - 20)
  /\ UNCHANGED <<pc, bvars, cvars, opts, iff, found_cmap, found_body, cmap_data,
                 body_data, final_planar_data, rle_rows, pal, bpl, chk, bpf, ub,
                 exit_iff>>

\* Iff2bpl.c:620-624
I_ReadCMAP ==
  /\ pc = "i_chunk"
  /\ ~LoopEnds
  /\ chunk_id = TagCMAP
  /\ \E g \in GarbageBytes : cmap_data' = ReadChunkData(iff, DataPos, size, g)
  /\ found_cmap' = TRUE
  /\ fpos' = DataPos + Avail(iff, DataPos, size)
  /\ UNCHANGED <<pc, bvars, cvars, opts, iff, bmhd, found_bmhd, found_body,
                 body_data, final_planar_data, rle_rows, pal, bpl, chk, bpf, ub,
                 exit_iff>>

\* Iff2bpl.c:625-629
I_ReadBODY ==
  /\ pc = "i_chunk"
  /\ ~LoopEnds
  /\ chunk_id = TagBODY
  /\ \E g \in GarbageBytes : body_data' = ReadChunkData(iff, DataPos, size, g)
  /\ found_body' = TRUE
  /\ fpos' = DataPos + Avail(iff, DataPos, size)
  /\ UNCHANGED <<pc, bvars, cvars, opts, iff, bmhd, found_bmhd, found_cmap,
                 cmap_data, final_planar_data, rle_rows, pal, bpl, chk, bpf, ub,
                 exit_iff>>

\* Iff2bpl.c:630-632
I_SkipChunk ==
  /\ pc = "i_chunk"
  /\ ~LoopEnds
  /\ chunk_id \notin {TagBMHD, TagCMAP, TagBODY}
  /\ fpos' = SeekCur(DataPos, size)
  /\ UNCHANGED <<pc, bvars, cvars, opts, iff, bmhd, found_bmhd, found_cmap,
                 found_body, cmap_data, body_data, final_planar_data, rle_rows,
                 pal, bpl, chk, bpf, ub, exit_iff>>

\* Iff2bpl.c:645-677  the .pal artifact
I_Cmap ==
  /\ pc = "i_cmap"
  /\ pal' = IF found_cmap THEN PalBytes(cmap_data, Len(cmap_data)) ELSE pal
  /\ pc' = "i_body"
  /\ UNCHANGED <<bvars, cvars, opts, iff, fpos, bmhd, found_bmhd, found_cmap,
                 found_body, cmap_data, body_data, final_planar_data, rle_rows,
                 bpl, chk, bpf, ub, exit_iff>>

\* the program ends abnormally after a read or store outside an allocation
Crash ==
  /\ pc' = "i_done"
  /\ exit_iff' = Crashed
  /\ ub' = TRUE

\* Iff2bpl.c:679-745  the .bpl artifact
I_Body ==
  /\ pc = "i_body"
  /\ IF ~found_body
     THEN /\ pc' = "i_exit"
          /\ UNCHANGED <<bmhd, final_planar_data, rle_rows, bpl, ub, exit_iff>>
     ELSE \E gh \in GarbageHeaders, g \in GarbageBytes :
            LET h == Resolve(bmhd, gh) IN
            /\ bmhd' = h
            /\ IF h.compression = 0
               THEN /\ bpl' = body_data
                    /\ final_planar_data' = body_data
                    /\ pc' = "i_chunky"
                    /\ UNCHANGED <<rle_rows, ub, exit_iff>>
               ELSE IF h.compression = 1
               THEN LET r == DecodeBody(body_data, h, g) IN
                    /\ rle_rows' = r.rows
                    /\ \/ /\ bpl' = r.out
                          /\ final_planar_data' = r.out
                          /\ ub' = (ub \/ r.ub)
                          /\ pc' = "i_chunky"
                          /\ UNCHANGED exit_iff
                       \/ /\ r.ub
                          /\ Crash
                          /\ UNCHANGED <<bpl, final_planar_data>>
               ELSE /\ pc' = "i_chunky"
                    /\ UNCHANGED <<final_planar_data, rle_rows, bpl, ub, exit_iff>>
  /\ UNCHANGED <<bvars, cvars, opts, iff, fpos, found_bmhd, found_cmap, found_body,
                 cmap_data, body_data, pal, chk, bpf>>

\* Iff2bpl.c:747-766  the .chk artifact
I_Chunky ==
  /\ pc = "i_chunky"
  /\ IF (opts.create_chunky \/ opts.create_chunky_doubled)
        /\ final_planar_data # Null /\ found_bmhd
     THEN \E g \in GarbageBytes :
            LET over == ChunkyOverrun(final_planar_data, bmhd.width, bmhd.height,
                                      bmhd.numPlanes)
            IN \/ /\ chk' = convert_to_chunky(final_planar_data, bmhd.width,
                                              bmhd.height, bmhd.numPlanes,
                                              opts.create_chunky_doubled, g)
                  /\ ub' = (ub \/ over)
                  /\ pc' = "i_ni"
                  /\ UNCHANGED exit_iff
               \/ /\ over
                  /\ Crash
                  /\ UNCHANGED chk
     ELSE pc' = "i_ni" /\ UNCHANGED <<chk, ub, exit_iff>>
  /\ UNCHANGED <<bvars, cvars, opts, iff, fpos, bmhd, found_bmhd, found_cmap,
                 found_body, cmap_data, body_data, final_planar_data, rle_rows,
                 pal, bpl, bpf>>

\* Iff2bpl.c:768-783  the .bpf artifact
I_NonInterleaved ==
  /\ pc = "i_ni"
  /\ IF opts.create_noninterleaved /\ final_planar_data # Null /\ found_bmhd
     THEN \E g \in GarbageBytes :
            LET noninterleaved_size == Len(final_planar_data)
                over == NiOverrun(final_planar_data, noninterleaved_size,
                                  bmhd.width, bmhd.height, bmhd.numPlanes)
            IN \/ /\ bpf' = convert_to_noninterleaved(final_planar_data,
                                 noninterleaved_size, bmhd.width, bmhd.height,
                                 bmhd.numPlanes, g)
                  /\ ub' = (ub \/ over)
                  /\ pc' = "i_exit"
                  /\ UNCHANGED exit_iff
               \/ /\ over
                  /\ Crash
                  /\ UNCHANGED bpf
     ELSE pc' = "i_exit" /\ UNCHANGED <<bpf, ub, exit_iff>>
  /\ UNCHANGED <<bvars, cvars, opts, iff, fpos, bmhd, found_bmhd, found_cmap,
                 found_body, cmap_data, body_data, final_planar_data, rle_rows,
                 pal, bpl, chk>>

\* Iff2bpl.c:785-795
I_Exit ==
  /\ pc = "i_exit"
  /\ exit_iff' = 0
  /\ pc' = "i_done"
  /\ UNCHANGED <<bvars, cvars, opts, iff, fpos, bmhd, found_bmhd, found_cmap,
                 found_body, cmap_data, body_data, final_planar_data, rle_rows,
                 pal, bpl, chk, bpf, ub>>

NextIff ==
  \/ I_Run \/ I_Open \/ I_EndChunks \/ I_ReadBMHD \/ I_ReadCMAP \/ I_ReadBODY
  \/ I_SkipChunk \/ I_Cmap \/ I_Body \/ I_Chunky \/ I_NonInterleaved \/ I_Exit

\* ------------------------------------------------------------------------
\* The specification of the two programs
\* ------------------------------------------------------------------------
vars == <<pc, bvars, ivars, cvars>>

\* decompress_packbits not called
NoCur == [si |-> 0, dst |-> <<>>, rd |-> 0, wr |-> 0, passes |-> 0]
NoStrict == [ret |-> Running, dst |-> <<>>]

IdleDecode ==
  /\ dpc = "idle" /\ dsrc = <<>> /\ dlen = 0 /\ dcur = NoCur
  /\ dret = Running /\ dstrict = NoStrict

IdleCodec ==
  /\ cpc = "idle" /\ crow = <<>> /\ cenc = <<>> /\ cdec = [di |-> 0, si |-> 0, dst |-> <<>>]
  /\ IdleDecode

Init ==
  /\ IdleCodec
  /\ \/ InitBpl /\ IdleIff
     \/ InitIff /\ IdleBpl

Next == NextBpl \/ NextIff

Spec == Init /\ [][Next]_vars

\* ------------------------------------------------------------------------
\* Codec specification: the two codec functions applied to row buffers
\* ------------------------------------------------------------------------

\* a row buffer is described by segments <<kind, value, length>>:
\* "run" = length equal bytes, "alt" = length bytes without 3 equal in a row
SegLens == (1..MaxShort) \cup {127, 128, 129}
SegVals == {0, 200}
Segment == {"run", "alt"} \X SegVals \X SegLens

SegBytes(sg) ==
  IF sg[1] = "run" THEN Fill(sg[3], sg[2])
  ELSE [i \in 1..sg[3] |-> (sg[2] + (i % 2) + 2 * ((i \div 2) % 2)) % 256]

RECURSIVE Flatten(_)
Flatten(segs) ==
  IF segs = <<>> THEN <<>> ELSE SegBytes(Head(segs)) \o Flatten(Tail(segs))

\* rows of one or two segments of every length, rows of more segments
\* made of the short ones
SegLists ==
  UNION {{segs \in [1..k -> Segment] :
            k > 2 => \A j \in 1..k : segs[j][3] <= MaxShort} : k \in 1..MaxSegs}

\* the row of the worked encoding example, and rows with pairs inside
\* literal data
ScenarioRows ==
  { <<5, 5, 5, 5, 5, 5, 9, 9, 1, 2, 3>>,
    <<1, 1, 2, 2, 2, 3>>,
    <<4, 4>>,
    <<7>> }

NoDec == [di |-> 0, si |-> 0, dst |-> <<>>]

InitCodec ==
  /\ pc = "idle"
  /\ IdleBpl
  /\ IdleIff
  /\ cpc = "c_input"
  /\ \/ \E segs \in SegLists : crow = Flatten(segs)
     \/ crow \in ScenarioRows
  /\ cenc = <<>>
  /\ cdec = NoDec
  /\ IdleDecode

CEncode ==
  /\ cpc = "c_input"
  /\ cenc' = packbits_encode(crow)
  /\ cpc' = "c_encoded"
  /\ UNCHANGED <<pc, bvars, ivars, dvars, crow, cdec>>

CDecode ==
  /\ cpc = "c_encoded"
  /\ cdec' = decompress_packbits(cenc, Len(crow))
  /\ cpc' = "c_decoded"
  /\ UNCHANGED <<pc, bvars, ivars, dvars, crow, cenc>>

NextCodec == CEncode \/ CDecode

SpecCodec == InitCodec /\ [][NextCodec]_vars

\* C1: PackBits round trip: decoding packbits_encode(X) with
\* decompress_packbits and expected length |X| returns exactly |X| bytes,
\* and those bytes equal X.
C1_RoundTrip ==
  cpc = "c_decoded" => cdec.di = Len(crow) /\ cdec.dst = crow

\* a row with a full 128-byte repeat run and a literal packet has been
\* round-tripped
C1_Witness ==
  /\ cpc = "c_decoded"
  /\ Len(crow) > MaxPacket
  /\ \E i \in 1..Len(cenc) : cenc[i] = 129
  /\ cdec.dst = crow

\* ------------------------------------------------------------------------
\* Properties of the two programs
\* ------------------------------------------------------------------------
\* this behaviour started with bpl2iff
BplRun == infile # NoFile

\* bpl2iff has assembled the interleaved BODY
BodyAssembled == BplRun /\ body_uncomp # <<>>

\* C2: without -t the BODY row segment (y, p) is row y of plane p of the
\* input, read as [row][plane][byte] with -i and as [plane][row][byte]
\* without, both with a row stride of rowBytes.
C2_RawLayout ==
  (BodyAssembled /\ ~transpose_cols(args)) =>
    LET rb == row_bytes(args.xsize) IN
    \A y \in 0..(args.ysize - 1) : \A p \in 0..(args.bplnum - 1) :
      RowSegment(body_uncomp, rb, y * args.bplnum + p)
        = Slice(infile,
                IF args.interleaved THEN (y * args.bplnum + p) * rb
                ELSE (p * args.ysize + y) * rb,
                rb)

\* bit p of pixel (x, y) in an interleaved plane buffer
PlaneBit(planar, width, np, x, y, p) ==
  Bit(At(planar, (y * np + p) * row_bytes(width) + (x \div 8)), 7 - (x % 8))

\* the .chk artifact exists and every plane byte it was made from was there
ChunkyMade ==
  /\ chk # NoFile
  /\ ~ChunkyOverrun(final_planar_data, bmhd.width, bmhd.height, bmhd.numPlanes)

\* C3: for 1..8 planes every chunky pixel is below 2^numPlanes and its bit p
\* is the bit 7-(x mod 8) of byte x/8 of row segment (y, p).
C3_Chunky ==
  (ChunkyMade /\ ~opts.create_chunky_doubled /\ bmhd.numPlanes \in 1..8) =>
    \A y \in 0..(bmhd.height - 1) : \A x \in 0..(bmhd.width - 1) :
      LET v == At(chk, y * bmhd.width + x) IN
      /\ v < Pow2(bmhd.numPlanes)
      /\ \A p \in 0..(bmhd.numPlanes - 1) :
           Bit(v, p) = PlaneBit(final_planar_data, bmhd.width, bmhd.numPlanes, x, y, p)

C3_Witness ==
  /\ ChunkyMade /\ ~opts.create_chunky_doubled
  /\ bmhd.numPlanes = 8 /\ bmhd.width = MaxWidth
  /\ \E k \in 1..Len(chk) : chk[k] >= 128
  /\ \E k \in 1..Len(chk) : chk[k] % 2 = 0

\* the .bpf artifact exists, made from a buffer of exactly the picture's size
NonInterleavedMade ==
  /\ bpf # NoFile
  /\ Len(final_planar_data) = bmhd.height * bmhd.numPlanes * row_bytes(bmhd.width)

\* C4: convert_to_noninterleaved puts interleaved byte (y*numPlanes+p)*rowBytes+b
\* at (p*height+y)*rowBytes+b, and bpl2iff's BODY assembly applied to the
\* result gives the interleaved buffer back.
C4_Reblock ==
  NonInterleavedMade =>
    LET rb == row_bytes(bmhd.width) IN
    /\ \A y \in 0..(bmhd.height - 1) : \A p \in 0..(bmhd.numPlanes - 1) :
         \A b \in 0..(rb - 1) :
           At(bpf, (p * bmhd.height + y) * rb + b)
             = At(final_planar_data, (y * bmhd.numPlanes + p) * rb + b)
    /\ AssembleBody(bpf, bmhd.width, bmhd.height, bmhd.numPlanes) = final_planar_data

C4_Witness ==
  /\ NonInterleavedMade
  /\ bmhd.height >= 2 /\ bmhd.numPlanes >= 2
  /\ bpf # final_planar_data

\* file offset of the CMAP payload in a container written by bpl2iff
CmapPos == 12 + 28 + 8

\* C5: an input of pixelDataLen + numColors*2 bytes has its last numColors*2
\* bytes used as big-endian colour words, one of pixelDataLen bytes gets the
\* default palette, any other length ends the run with status 1 and no
\* output container.
C5_PaletteDetection ==
  (BplRun /\ pc \notin {"b_args", "b_read"} /\ args.xsize > 0) =>
    LET n == Len(infile)
        nc == IF Pow2(args.bplnum) < 256 THEN Pow2(args.bplnum) ELSE 256
        word(i) == At(infile, expected_size(args) + 2 * i) * 256
                   + At(infile, expected_size(args) + 2 * i + 1)
        cmapWritten == pc \notin {"b_header", "b_cmap"}
    IN
    IF n = expected_size(args) + nc * 2
    THEN /\ has_custom_palette
         /\ custom_palette = [i \in 1..nc |-> word(i - 1)]
         /\ cmapWritten =>
              \A i \in 0..(nc - 1) :
                Slice(outfile, CmapPos + 3 * i, 3)
                  = <<((word(i) \div 256) % 16) * 17, ((word(i) \div 16) % 16) * 17,
                      (word(i) % 16) * 17>>
    ELSE IF n = expected_size(args)
    THEN /\ ~has_custom_palette
         /\ cmapWritten =>
              \A i \in 0..(nc - 1) :
                Slice(outfile, CmapPos + 3 * i, 3)
                  = IF i = 0 THEN <<0, 0, 0>> ELSE <<255, 255, 255>>
    ELSE pc = "b_exit" /\ exit_code = 1 /\ outfile = NoFile

C5_Witness ==
  /\ BplRun /\ pc = "b_done"
  /\ has_custom_palette
  /\ args.bplnum = 9
  /\ transpose_cols(args)

\* C6: the palette word of a CMAP entry (r,g,b) is ((r>>4)<<8)|((g>>4)<<4)|(b>>4),
\* stored high byte first, and a CMAP of n*3 payload bytes gives n*2 bytes.
C6_ScaleDown ==
  (pal # NoFile) =>
    /\ \A n \in 1..256 :
         Len(cmap_data) = (IF n % 2 = 1 THEN 3 * n + 1 ELSE 3 * n) => Len(pal) = 2 * n
    /\ \A i \in 0..((Len(pal) \div 2) - 1) :
         /\ At(pal, 2 * i) = At(cmap_data, 3 * i) \div 16
         /\ At(pal, 2 * i + 1) = (At(cmap_data, 3 * i + 1) \div 16) * 16
                                  + (At(cmap_data, 3 * i + 2) \div 16)

C6_Witness ==
  /\ pal # NoFile
  /\ Len(pal) = 6 /\ Len(cmap_data) = 10
  /\ \E j \in 1..9 : cmap_data[j] \in {127, 239}

\* C7: without a trailing palette the container has a CMAP of
\* min(2^numPlanes,256) entries, entry 0 black and the others white, and
\* iff2bpl turns it into the words 0x0000 and 0x0FFF.
C7_DefaultPalette ==
  (BplRun /\ ~has_custom_palette) =>
    LET nc == IF Pow2(args.bplnum) < 256 THEN Pow2(args.bplnum) ELSE 256 IN
    /\ pc \in {"b_planes", "b_done"} =>
         /\ Slice(outfile, CmapPos - 8, 8) = TagCMAP \o <<0, 0, (3 * nc) \div 256, (3 * nc) % 256>>
         /\ Len(outfile) >= CmapPos + 3 * nc
         /\ \A i \in 0..(nc - 1) :
              Slice(outfile, CmapPos + 3 * i, 3)
                = IF i = 0 THEN <<0, 0, 0>> ELSE <<255, 255, 255>>
    /\ pal # NoFile =>
         /\ Len(pal) = 2 * nc
         /\ \A i \in 0..(nc - 1) :
              Slice(pal, 2 * i, 2) = IF i = 0 THEN <<0, 0>> ELSE <<15, 255>>

C7_Witness ==
  /\ BplRun /\ ~has_custom_palette
  /\ args.bplnum = 3
  /\ pal # NoFile /\ Len(pal) = 16

\* the pixel value the plane extraction gives for (x, y)
PixelOf(planar, width, np, x, y) ==
  LET term(p) == IF p < np THEN PlaneBit(planar, width, np, x, y, p) * Pow2(p) ELSE 0
  IN term(0) + term(1) + term(2) + term(3) + term(4) + term(5) + term(6) + term(7)

\* C8: with -cd bits 2b and 2b+1 of the chunky byte both equal bit b of the
\* pixel value for b = 0..3, whatever its bits 4..7 are.
C8_BitDoubling ==
  (ChunkyMade /\ opts.create_chunky_doubled) =>
    \A y \in 0..(bmhd.height - 1) : \A x \in 0..(bmhd.width - 1) :
      LET v == PixelOf(final_planar_data, bmhd.width, bmhd.numPlanes, x, y)
          d == At(chk, y * bmhd.width + x)
      IN /\ d \in 0..255
         /\ \A b \in 0..3 : Bit(d, 2 * b) = Bit(v, b) /\ Bit(d, 2 * b + 1) = Bit(v, b)
         /\ (v = 1 => d = 3) /\ (v = 2 => d = 12) /\ (v = 13 => d = 243)

C8_Witness ==
  /\ ChunkyMade /\ opts.create_chunky_doubled
  /\ \E y \in 0..(bmhd.height - 1) : \E x \in 0..(bmhd.width - 1) :
       LET v == PixelOf(final_planar_data, bmhd.width, bmhd.numPlanes, x, y) IN
       v >= 16 /\ v % 16 \notin {0, 15}

\* a big-endian 32-bit field of the container
Field32(file, pos) ==
  At(file, pos) * 16777216 + At(file, pos + 1) * 65536
  + At(file, pos + 2) * 256 + At(file, pos + 3)

Even(n) == IF n % 2 = 1 THEN n + 1 ELSE n

\* C9: after a successful bpl2iff the size field at bytes 4..7 is the file
\* length minus 8, that is 4 + (8+20) + (8 + even CMAP length)
\* + (8 + even BODY length).
C9_FormSize ==
  (BplRun /\ exit_code = 0) =>
    LET cmapLen == Field32(outfile, CmapPos - 4)
        bodyLen == Field32(outfile, CmapPos + Even(cmapLen) + 4)
    IN /\ Field32(outfile, 4) = Len(outfile) - 8
       /\ Field32(outfile, 4) = 4 + (8 + 20) + (8 + Even(cmapLen)) + (8 + Even(bodyLen))
       /\ bodyLen = Len(body_to_write)
       /\ cmapLen = 3 * num_colors(args.bplnum)

C9_Witness ==
  /\ BplRun /\ exit_code = 0 /\ pc = "b_done"
  /\ args.use_rle
  /\ Len(body_to_write) % 2 = 1

\* the BODY payload of a container written by bpl2iff
BodyPayload(file) ==
  LET cmapLen == Field32(file, CmapPos - 4)
      bodyLen == Field32(file, CmapPos + Even(cmapLen) + 4)
  IN Slice(file, CmapPos + Even(cmapLen) + 8, bodyLen)

C10_Final ==
  LET comp == At(outfile, CompOffset)
      raw == body_uncomp
      enc == EncodeRows(body_uncomp, row_bytes(args.xsize), 0, args.ysize * args.bplnum)
  IN /\ comp \in {0, 1}
     /\ comp = 1 <=> (args.use_rle /\ BodyPayload(outfile) = enc)
     /\ comp = 0 <=> BodyPayload(outfile) = raw

\* C10: in a finished container byte 30 is 1 exactly when the BODY is the
\* per-row PackBits encoding and 0 exactly when it is the raw interleaved
\* data, and the patch at offset 30 changes no other byte of the file.
C10_Compression ==
  [][/\ pc = "b_patch_comp" =>
          /\ Len(outfile') = Len(outfile)
          /\ \A i \in 1..Len(outfile) : i # CompOffset + 1 => outfile'[i] = outfile[i]
     /\ pc' = "b_done" => C10_Final']_vars

C10_Witness ==
  /\ pc = "b_done" /\ args.use_rle
  /\ At(outfile, CompOffset) = 1
  /\ Len(body_to_write) < Len(body_uncomp)

\* ------------------------------------------------------------------------
\* iff2bpl: the chunk loop as a function of the file (Iff2bpl.c:583-633)
\* ------------------------------------------------------------------------
\* Iff2bpl.c:583-595  the locals before the loop; chunks lists what the loop
\* has visited: tag, header position, declared length, position it went on to
WalkStart(file) ==
  [fpos |-> Avail(file, 0, 12), bmhd |-> UninitBMHD,
   found_bmhd |-> FALSE, found_cmap |-> FALSE, found_body |-> FALSE,
   cmap_data |-> Null, body_data |-> Null, chunks |-> <<>>]

\* Iff2bpl.c:598-632  one pass of the loop body
WalkStep(file, st, g) ==
  LET id == Slice(file, st.fpos, 4)
      declared == read_be32(file, st.fpos + 4)
      dp == st.fpos + 4 + Avail(file, st.fpos + 4, 4)
      sz == EvenSize(declared)
      next == IF id = TagBMHD THEN SeekCur(dp + Avail(file, dp, 20), sz - 20)
              ELSE IF id \in {TagCMAP, TagBODY} THEN dp + Avail(file, dp, sz)
              ELSE SeekCur(dp, sz)
      seen == Append(st.chunks, [id |-> id, pos |-> st.fpos, data |-> dp,
                                 declared |-> declared, next |-> next])
  IN IF id = TagBMHD
     THEN [st EXCEPT !.bmhd = ReadBMHD(file, dp, st.bmhd), !.found_bmhd = TRUE,
                     !.fpos = next, !.chunks = seen]
     ELSE IF id = TagCMAP
     THEN [st EXCEPT !.cmap_data = ReadChunkData(file, dp, sz, g),
                     !.found_cmap = TRUE, !.fpos = next, !.chunks = seen]
     ELSE IF id = TagBODY
     THEN [st EXCEPT !.body_data = ReadChunkData(file, dp, sz, g),
                     !.found_body = TRUE, !.fpos = next, !.chunks = seen]
     ELSE [st EXCEPT !.fpos = next, !.chunks = seen]

\* Iff2bpl.c:597-633  the loop
RECURSIVE ChunkLoop(_, _, _)
ChunkLoop(file, st, g) ==
  IF ~(st.fpos < Len(file)) \/ Avail(file, st.fpos, 4) # 4 THEN st
  ELSE ChunkLoop(file, WalkStep(file, st, g), g)

ChunkWalk(file, g) == ChunkLoop(file, WalkStart(file), g)

\* what the loop has captured: header, palette and body data
CapturedData(st) ==
  [f \in {"bmhd", "found_bmhd", "found_cmap", "found_body", "cmap_data",
          "body_data"} |-> st[f]]

\* the same of the running program
Captured ==
  [bmhd |-> bmhd, found_bmhd |-> found_bmhd, found_cmap |-> found_cmap,
   found_body |-> found_body, cmap_data |-> cmap_data, body_data |-> body_data]

\* chunks whose declared length reaches past the end of the file, and a
\* trailing piece too short for a chunk header
PastEnd(file) ==
  LET w == ChunkWalk(file, 0) IN
  {w.chunks[i].id : i \in {j \in DOMAIN w.chunks :
       w.chunks[j].data + w.chunks[j].declared > Len(file)
       \/ w.chunks[j].data # w.chunks[j].pos + 8}}
  \cup (IF w.fpos < Len(file) THEN {<<>>} ELSE {})

\* every chunk of the file lies in the file, pad byte included
WellFormed(file) ==
  LET w == ChunkWalk(file, 0) IN
  /\ Len(file) >= 12
  /\ w.fpos = Len(file)
  /\ \A i \in DOMAIN w.chunks :
       /\ w.chunks[i].data = w.chunks[i].pos + 8
       /\ w.chunks[i].next = w.chunks[i].data + EvenSize(w.chunks[i].declared)
       /\ w.chunks[i].next <= Len(file)

\* chunks with a tag that is none of BMHD, CMAP, BODY: declared lengths
\* 0, 3 (with a pad byte) and 4; the payload repeats the letters "BODY"
UnknownTags == {TagJUNK, <<65, 78, 78, 79>>}
UnknownLens == {0, 3, 4}
UnknownChunks ==
  {MkChunk(t, [i \in 1..n |-> TagBODY[((i - 1) % 4) + 1]]) :
     t \in UnknownTags, n \in UnknownLens}

\* the file with chunk j put in at position pos
Insert(file, pos, j) ==
  SubSeq(file, 1, pos) \o j \o SubSeq(file, pos + 1, Len(file))

\* the positions between the chunks: behind the FORM header and behind
\* every chunk
Boundaries(file) ==
  LET w == ChunkWalk(file, 0) IN {12} \cup {w.chunks[i].next : i \in DOMAIN w.chunks}

\* the bytes of the chunks in the order perm
RECURSIVE Reordered(_, _, _, _)
Reordered(file, chunks, perm, i) ==
  IF i > Len(chunks) THEN <<>>
  ELSE Slice(file, chunks[perm[i]].pos, chunks[perm[i]].next - chunks[perm[i]].pos)
       \o Reordered(file, chunks, perm, i + 1)

Perms(n) == {f \in [1..n -> 1..n] : \A a, b \in 1..n : f[a] = f[b] => a = b}

\* no tag occurs twice
TagsDistinct(chunks) ==
  \A a, b \in DOMAIN chunks : chunks[a].id = chunks[b].id => a = b

\* C11: on a container whose chunks all lie in the file, the chunk loop
\* captures what the function ChunkWalk captures, and a chunk with an
\* unknown tag and any declared length (odd lengths with their pad byte) put
\* before, between or after the chunks changes none of the captured header,
\* palette and body data, from which alone the artifacts are made; the
\* chunks in any other order are captured the same.
C11_SkipUnknown ==
  (pc = "i_cmap" /\ WellFormed(iff)) =>
    LET w == ChunkWalk(iff, 0) IN
    /\ Captured = CapturedData(w)
    /\ fpos = w.fpos
    /\ \A pos \in Boundaries(iff) : \A j \in UnknownChunks :
         CapturedData(ChunkWalk(Insert(iff, pos, j), 0)) = Captured
    /\ TagsDistinct(w.chunks) =>
         \A perm \in Perms(Len(w.chunks)) :
           CapturedData(ChunkWalk(SubSeq(iff, 1, 12)
                                  \o Reordered(iff, w.chunks, perm, 1), 0)) = Captured

\* the loop has skipped an odd-length unknown chunk that lies between known
\* chunks and has captured all three known chunks, the BODY before the BMHD
\* in some runs
C11_Witness ==
  /\ pc = "i_cmap" /\ WellFormed(iff)
  /\ found_bmhd /\ found_cmap /\ found_body
  /\ LET w == ChunkWalk(iff, 0) IN
     \E i \in DOMAIN w.chunks :
       /\ w.chunks[i].id = TagJUNK /\ w.chunks[i].declared = 3
       /\ 1 < i /\ i < Len(w.chunks)

\* C12: when the declared length of a chunk reaches past the end of the
\* container, iff2bpl ends with a format error (exit status 1) and no
\* artifact is made from that chunk: no .pal from a cut CMAP, no .bpl, .chk
\* or .bpf from a cut BODY.
C12_PastEnd ==
  (pc = "i_done" /\ iff # NoFile /\ PastEnd(iff) # {}) =>
    /\ exit_iff = 1
    /\ TagCMAP \in PastEnd(iff) => pal = NoFile
    /\ TagBODY \in PastEnd(iff) => bpl = NoFile /\ chk = NoFile /\ bpf = NoFile

\* C13: with a BODY chunk and no BMHD chunk the run is aborted: no row is
\* decoded, no chunky or non-interleaved conversion is made, no field of the
\* header (which stays as it was declared, never stored) is read, and the
\* exit status is 1.
C13_MissingHeader ==
  (iff # NoFile /\ found_body /\ ~found_bmhd
   /\ pc \in {"i_chunky", "i_ni", "i_exit", "i_done"}) =>
    /\ rle_rows = <<>>
    /\ chk = NoFile /\ bpf = NoFile
    /\ bmhd = UninitBMHD
    /\ pc = "i_done" => exit_iff = 1

\* C14: the exit status is 1 on every usage or structural error and 0 only
\* on success: bpl2iff returns 0 only after the last patch and 1 on missing
\* parameters or a size mismatch, iff2bpl returns 1 without an input file,
\* and an iff2bpl run whose BMHD compression is neither 0 nor 1 ends with
\* exit status 1 and without .bpl, .chk and .bpf.
C14_ExitStatus ==
  /\ exit_code = 0 => pc \notin {"b_args", "b_read", "b_header", "b_cmap", "b_planes",
                                 "b_assemble", "b_encode", "b_body", "b_patch_comp",
                                 "b_patch_size", "b_exit"}
  /\ pc = "b_exit" => exit_code = 1 /\ outfile = NoFile
  /\ (pc = "i_done" /\ iff = NoFile) => exit_iff = 1
  /\ (pc = "i_done" /\ iff # NoFile /\ found_bmhd /\ found_body
      /\ bmhd.compression \notin {0, 1}) =>
       /\ exit_iff = 1
       /\ bpl = NoFile /\ chk = NoFile /\ bpf = NoFile

\* C15: for every width that is not a multiple of 16 and every input mode,
\* every BODY row segment is rowBytes long and its bytes from index
\* ceil(width/8) on are zero.
C15_RowPadding ==
  (BodyAssembled /\ args.xsize % 16 # 0) =>
    LET rb == row_bytes(args.xsize) IN
    /\ Len(body_uncomp) = rb * args.ysize * args.bplnum
    /\ \A seg \in 0..(args.ysize * args.bplnum - 1) :
         \A i \in bytes_per_row_min(args.xsize)..(rb - 1) :
           At(RowSegment(body_uncomp, rb, seg), i) = 0

\* bpl2iff has filled the plane buffers from input given with -t
Transposed == BplRun /\ plane_buffers # <<>> /\ transpose_cols(args)

\* C16: with -t, for every plane, column block c < columns, row y and byte
\* b < colWidth, offset c*colWidth + b lies in row y of the plane buffer and
\* the byte there is input byte (c*height + y)*colWidth + b of that plane.
C16_TransposePlacement ==
  Transposed =>
    \A p \in 0..(args.bplnum - 1) : \A c \in 0..(columns(args) - 1) :
      \A y \in 0..(args.ysize - 1) : \A b \in 0..(args.transpose_col_width - 1) :
        /\ c * args.transpose_col_width + b < row_bytes(args.xsize)
        /\ At(plane_buffers, p * plane_size(args) + y * row_bytes(args.xsize)
                             + c * args.transpose_col_width + b)
             = At(data, p * plane_input_size(args)
                        + (c * args.ysize + y) * args.transpose_col_width + b)

\* the parameters of the transposition back: rows and columns exchanged,
\* the column width kept
SwappedArgs(a) ==
  [a EXCEPT !.xsize = 8 * a.transpose_col_width * a.ysize, !.ysize = columns(a)]

\* plane p of the input and of the plane buffers
InputPlane(p) == Slice(data, p * plane_input_size(args), plane_input_size(args))
BufferPlane(p) == Slice(plane_buffers, p * plane_size(args), plane_size(args))

\* the transposition leaves no padding: the column blocks fill the padded
\* row, and so do the rows of a column
DimensionsMatch(a) ==
  /\ columns(a) * a.transpose_col_width = row_bytes(a.xsize)
  /\ (a.ysize * a.transpose_col_width) % 2 = 0

\* C17 as stated: for all column widths, rows and columns the transposed
\* plane, transposed again with rows and columns exchanged, is the input.
C17_SelfInverseAll ==
  Transposed =>
    \A p \in 0..(args.bplnum - 1) :
      /\ Len(BufferPlane(p)) = plane_input_size(SwappedArgs(args))
      /\ TransposePlane(SwappedArgs(args), BufferPlane(p)) = InputPlane(p)

\* C17 amended: when the dimensions match (columns*colWidth = rowBytes and
\* rows*colWidth even) the transposed plane, transposed again with rows and
\* columns exchanged, is the input.
C17_SelfInverse ==
  (Transposed /\ DimensionsMatch(args)) =>
    \A p \in 0..(args.bplnum - 1) :
      /\ Len(BufferPlane(p)) = plane_input_size(SwappedArgs(args))
      /\ TransposePlane(SwappedArgs(args), BufferPlane(p)) = InputPlane(p)

\* a plane of two column blocks and two rows, and one of two-byte column
\* entries, have been transposed; the plane buffer differs from the input
C17_Witness ==
  /\ Transposed /\ DimensionsMatch(args)
  /\ args.ysize >= 2
  /\ columns(args) >= 2 \/ args.transpose_col_width >= 2
  /\ BufferPlane(0) # InputPlane(0)

\* the container of bpl2iff holds the whole CMAP chunk
CmapWritten ==
  BplRun /\ outfile # NoFile /\ Len(outfile) >= CmapPos + 3 * num_colors(args.bplnum)

\* C18: scaleUp expands a nibble n to n*17; for every 8-bit channel value c
\* of bucket [16k, 16k+15], scaleUp(scaleDown(c)) = 17k; and a 12-bit colour
\* word that bpl2iff expands into the CMAP is the word iff2bpl writes to
\* the .pal artifact.
C18_ScaleRoundTrip ==
  /\ \A n \in 0..15 : ScaleUp(n) = n * 17
  /\ \A c \in Byte : ScaleUp(ScaleDown(c)) = 17 * (c \div 16)
  /\ (CmapWritten /\ has_custom_palette) =>
       \A i \in 0..(num_colors(args.bplnum) - 1) :
         LET w == custom_palette[i + 1] % 4096 IN
         Slice(outfile, CmapPos + 3 * i, 3)
           = <<17 * (w \div 256), 17 * ((w \div 16) % 16), 17 * (w % 16)>>
  /\ pal # NoFile =>
       \A i \in 0..((Len(pal) \div 2) - 1) :
         /\ ScaleUp(At(pal, 2 * i) % 16) = 17 * (At(cmap_data, 3 * i) \div 16)
         /\ ScaleUp(At(pal, 2 * i + 1) \div 16) = 17 * (At(cmap_data, 3 * i + 1) \div 16)
         /\ ScaleUp(At(pal, 2 * i + 1) % 16) = 17 * (At(cmap_data, 3 * i + 2) \div 16)
  /\ (BplRun /\ has_custom_palette /\ pal # NoFile) =>
       /\ Len(pal) = 2 * num_colors(args.bplnum)
       /\ \A i \in 0..(num_colors(args.bplnum) - 1) :
            At(pal, 2 * i) * 256 + At(pal, 2 * i + 1) = custom_palette[i + 1] % 4096

\* iff2bpl has written the palette of a container that bpl2iff made from a
\* trailing palette with a colour that is neither black nor white
C18_Witness ==
  /\ BplRun /\ has_custom_palette /\ pal # NoFile /\ pc = "i_done"
  /\ \E i \in DOMAIN custom_palette :
       /\ custom_palette[i] % 4096 \notin {0, 4095}
       /\ custom_palette[i] >= 4096

\* the header fields bpl2iff was given, as they lie in the 20 bytes of the
\* BMHD payload; comp is the compression byte
HeaderBytes(a, comp) ==
  <<a.xsize \div 256, a.xsize % 256, a.ysize \div 256, a.ysize % 256,
    0, 0, 0, 0, a.bplnum, 0, comp, 0, 0, 0, 1, 1,
    a.xsize \div 256, a.xsize % 256, a.ysize \div 256, a.ysize % 256>>

\* header values at the ends of the 16-bit range
WideSizes == {1, 255, 256, 65535}

\* C19: the BMHD of bpl2iff is 20 bytes with the fields in the fixed order,
\* multi-byte fields big-endian, and the chunk loop of iff2bpl reads width,
\* height, numPlanes and compression back as bpl2iff was given them, for
\* width and height in 1..65535 and 1..8 planes.
C19_HeaderRoundTrip ==
  /\ (BplRun /\ outfile # NoFile /\ args.bplnum \in 1..8) =>
       /\ Slice(outfile, 12, 8) = TagBMHD \o <<0, 0, 0, 20>>
       /\ Slice(outfile, 20, 20)
            = HeaderBytes(args, IF args.use_rle /\ pc \notin {"b_cmap", "b_planes",
                                     "b_assemble", "b_encode", "b_body", "b_patch_comp"}
                                THEN 1 ELSE 0)
  /\ (BplRun /\ found_bmhd /\ args.bplnum \in 1..8) =>
       /\ bmhd.width = args.xsize
       /\ bmhd.height = args.ysize
       /\ bmhd.numPlanes = args.bplnum
       /\ bmhd.compression = (IF args.use_rle THEN 1 ELSE 0)
  /\ BplRun =>
       \A w \in WideSizes : \A h \in WideSizes : \A n \in {1, 8} :
         LET a == [args EXCEPT !.xsize = w, !.ysize = h, !.bplnum = n]
             file == FormHeader \o BmhdChunk(a)
             r == ReadBMHD(file, 20, UninitBMHD)
         IN /\ Slice(file, 20, 20) = HeaderBytes(a, 0)
            /\ r.width = w /\ r.height = h /\ r.numPlanes = n /\ r.compression = 0

\* iff2bpl has read the header of a compressed container of bpl2iff with
\* width and height that differ
C19_Witness ==
  /\ BplRun /\ found_bmhd /\ pc = "i_done"
  /\ args.use_rle /\ bmhd.compression = 1
  /\ bmhd.width = MaxWidth /\ bmhd.height = 2 /\ bmhd.numPlanes = 3

\* C20: for every BODY byte stream and every row of the RLE row loop, the
\* number of source bytes by which the loop advances src_offset (the count
\* of the replay loop) is the number of source bytes decompress_packbits
\* has consumed for that row.
C20_CursorAdvance ==
  \A i \in DOMAIN rle_rows :
    rle_rows[i].src_offset <= Len(body_data) =>
      rle_rows[i].consumed = rle_rows[i].used

\* ------------------------------------------------------------------------
\* Decoder specification: decompress_packbits, pass by pass, on byte streams
\* ------------------------------------------------------------------------
MaxStream == 4   \* length of the enumerated source streams
MaxDst == 3      \* dst_len of the enumerated calls

\* control bytes 0, 1, 2 (literals of 1..3), -128 (no-op), -2, -1 (repeats
\* of 3 and 2); the same values serve as payload
DecBytes == {0, 1, 2, 128, 254, 255}

ShortStreams == UNION {[1..k -> DecBytes] : k \in 0..MaxStream}

\* streams with the largest packets: a literal of 128, a repeat of 128, and
\* a no-op, a repeat of 128 and a literal of 1
LongStreams ==
  {<<127>> \o [i \in 1..128 |-> i], <<129, 7>>, <<128, 129, 7, 0, 9>>}

DstLens == (0..MaxDst) \cup {127, 128, 129}

InitDecode ==
  /\ pc = "idle"
  /\ IdleBpl
  /\ IdleIff
  /\ cpc = "idle" /\ crow = <<>> /\ cenc = <<>> /\ cdec = NoDec
  /\ dpc = "d_loop"
  /\ dsrc \in ShortStreams \cup LongStreams
  /\ dlen \in DstLens
  /\ dcur = NoCur
  /\ dret = Running
  /\ dstrict = NoStrict

\* Iff2bpl.c:414  the loop condition
DecompGoesOn == dcur.si < Len(dsrc) /\ Len(dcur.dst) < dlen

\* Iff2bpl.c:414-434  one pass of the loop; the break of line 427 leads to
\* the return
D_Step ==
  /\ dpc = "d_loop"
  /\ DecompGoesOn
  /\ LET st == DecompStep(dsrc, dlen, dcur.si, Len(dcur.dst)) IN
     /\ dcur' = [si |-> st.si, dst |-> dcur.dst \o st.out,
                 rd |-> IF st.rd > dcur.rd THEN st.rd ELSE dcur.rd,
                 wr |-> IF st.wr > dcur.wr THEN st.wr ELSE dcur.wr,
                 passes |-> dcur.passes + 1]
     /\ IF st.brk
        THEN dpc' = "d_done" /\ dret' = Len(dcur.dst)
        ELSE UNCHANGED <<dpc, dret>>
  /\ UNCHANGED <<pc, bvars, ivars, cpc, crow, cenc, cdec, dsrc, dlen, dstrict>>

\* Iff2bpl.c:414, 435  the loop condition fails: return di
D_Return ==
  /\ dpc = "d_loop"
  /\ ~DecompGoesOn
  /\ dret' = Len(dcur.dst)
  /\ dpc' = "d_done"
  /\ UNCHANGED <<pc, bvars, ivars, cpc, crow, cenc, cdec, dsrc, dlen, dcur, dstrict>>

\* part_000:118-139  packbits_decode applied to the same source and length
D_Strict ==
  /\ dpc = "d_done"
  /\ dstrict' = packbits_decode(dsrc, dlen)
  /\ dpc' = "d_checked"
  /\ UNCHANGED <<pc, bvars, ivars, cpc, crow, cenc, cdec, dsrc, dlen, dcur, dret>>

NextDecode == D_Step \/ D_Return \/ D_Strict

SpecDecode == InitDecode /\ [][NextDecode]_vars

\* the stream src read from si on by the PackBits rule alone: ok is FALSE
\* when the stream ends within a packet
RECURSIVE Expand(_, _, _)
Expand(src, si, out) ==
  IF si >= Len(src) THEN [ok |-> TRUE, out |-> out]
  ELSE LET n == ToInt8(At(src, si)) IN
       IF n >= 0
       THEN IF si + 1 + (n + 1) > Len(src) THEN [ok |-> FALSE, out |-> out]
            ELSE Expand(src, si + n + 2, out \o Slice(src, si + 1, n + 1))
       ELSE IF n = -128 THEN Expand(src, si + 1, out)
       ELSE IF si + 1 >= Len(src) THEN [ok |-> FALSE, out |-> out]
            ELSE Expand(src, si + 2, out \o Fill(1 - n, At(src, si + 1)))

\* every packet of the stream is whole and what they produce fits the row
PacketsFit(src, dst_len) ==
  Expand(src, 0, <<>>).ok /\ Len(Expand(src, 0, <<>>).out) <= dst_len

\* C21: while the packet at the cursor fits the source and the row, a
\* control byte n in 0..127 copies the next n+1 source bytes to the output,
\* n in -127..-1 writes the following byte (-n)+1 times, and n = -128
\* produces nothing and consumes the control byte only; on a stream whose
\* packets all fit, decompress_packbits and packbits_decode both return the
\* bytes the rule gives.
C21_DecodeSemantics ==
  [][ /\ (dpc = "d_loop" /\ dcur'.passes = dcur.passes + 1) =>
           LET n == ToInt8(At(dsrc, dcur.si))
               si == dcur.si
               di == Len(dcur.dst)
           IN /\ (n >= 0 /\ si + 1 + (n + 1) <= Len(dsrc) /\ di + n + 1 <= dlen) =>
                   /\ dcur'.dst = dcur.dst \o Slice(dsrc, si + 1, n + 1)
                   /\ dcur'.si = si + n + 2
              /\ (n \in (0 - 127)..(0 - 1) /\ si + 1 < Len(dsrc) /\ di + (1 - n) <= dlen) =>
                   /\ dcur'.dst = dcur.dst \o Fill(1 - n, At(dsrc, si + 1))
                   /\ dcur'.si = si + 2
              /\ n = 0 - 128 => dcur'.dst = dcur.dst /\ dcur'.si = si + 1
      /\ (dpc' = "d_checked" /\ PacketsFit(dsrc, dlen)) =>
           LET want == Expand(dsrc, 0, <<>>).out IN
           /\ dret' = Len(want) /\ dcur'.dst = want
           /\ dstrict'.ret = Len(want) /\ dstrict'.dst = want
    ]_vars

\* both decoders have decoded a no-op, a repeat of 128 and a literal
C21_Witness ==
  /\ dpc = "d_checked"
  /\ dsrc = <<128, 129, 7, 0, 9>>
  /\ dlen = 129
  /\ dret = 129 /\ dstrict.ret = 129

\* C23: decompress_packbits is bounded for every source byte sequence: it
\* never produces more than dst_len bytes, never writes an output index >=
\* dst_len, never reads a source index >= src_len, makes at most src_len
\* passes, returns a count <= dst_len, and has stopped with dst_len bytes
\* produced or the source exhausted.
C23_Bounded ==
  dpc # "idle" =>
    /\ Len(dcur.dst) <= dlen
    /\ dcur.wr <= dlen
    /\ dcur.rd <= Len(dsrc)
    /\ dcur.si <= Len(dsrc)
    /\ dcur.passes <= Len(dsrc)
    /\ dpc \in {"d_done", "d_checked"} =>
         /\ dret = Len(dcur.dst) /\ dret <= dlen
         /\ Len(dcur.dst) = dlen \/ dcur.si = Len(dsrc)
         /\ decompress_packbits(dsrc, dlen)
              = [di |-> dret, si |-> dcur.si, dst |-> dcur.dst]

\* the decoder has stopped with the row full, source bytes left over and
\* the last packet cut to the row
C23_Witness ==
  /\ dpc = "d_done"
  /\ dlen > 0 /\ dret = dlen
  /\ dcur.si < Len(dsrc)
  /\ Expand(dsrc, 0, <<>>).ok
  /\ Len(Expand(SubSeq(dsrc, 1, dcur.si), 0, <<>>).out) > dlen


\* ------------------------------------------------------------------------
\* The encoder: its rule, its output size, its packets
\* ------------------------------------------------------------------------
Min2(a, b) == IF a <= b THEN a ELSE b

\* the length of the run of identical bytes starting at index i of row,
\* counted up to 128
RunAt(row, i) ==
  LET longest == Min2(128, Len(row) - i)
      same(k) == \A j \in 0..(k - 1) : At(row, i + j) = At(row, i)
  IN CHOOSE r \in 1..longest :
       same(r) /\ (r < longest => At(row, i + r) # At(row, i))

\* three identical bytes begin at index j of row
ThreeBegin(row, j) ==
  j + 2 < Len(row) /\ At(row, j + 1) = At(row, j) /\ At(row, j + 2) = At(row, j)

\* the end of the literal that starts at index i: the first index from i
\* where three identical bytes begin, at most 128 bytes on, at most the end
LitEnd(row, i) ==
  LET last == Min2(i + 128, Len(row)) IN
  CHOOSE e \in i..last :
    /\ e = last \/ ThreeBegin(row, e)
    /\ \A j \in i..(e - 1) : ~ThreeBegin(row, j)

\* the encoding the rule prescribes for row from index i on
RECURSIVE RuleEncode(_, _)
RuleEncode(row, i) ==
  IF i >= Len(row) THEN <<>>
  ELSE LET r == RunAt(row, i) IN
       IF r >= 3
       THEN <<ToUint8(1 - r), At(row, i)>> \o RuleEncode(row, i + r)
       ELSE LET e == LitEnd(row, i) IN
            <<ToUint8(e - i - 1)>> \o Slice(row, i, e - i) \o RuleEncode(row, e)

\* C22: packbits_encode follows the encode rule: where the run of identical
\* bytes at the cursor (counted up to 128) has length r >= 3 it emits the
\* control byte 1-r and the value, otherwise a literal packet of the bytes
\* up to the first position where three identical bytes begin (at most 128)
\* as control byte len-1 and those bytes; [5,5,5,5,5,5,9,9,1,2,3] encodes
\* as control -5, value 5, control 4, bytes 9,9,1,2,3.
C22_EncodeRule ==
  cpc # "c_input" =>
    /\ cenc = RuleEncode(crow, 0)
    /\ crow = <<5, 5, 5, 5, 5, 5, 9, 9, 1, 2, 3>> =>
         /\ Len(cenc) = 8
         /\ ToInt8(cenc[1]) = 0 - 5 /\ cenc[2] = 5
         /\ ToInt8(cenc[3]) = 4 /\ SubSeq(cenc, 4, 8) = <<9, 9, 1, 2, 3>>

\* the worked example has been encoded
C22_Witness ==
  /\ cpc = "c_encoded"
  /\ crow = <<5, 5, 5, 5, 5, 5, 9, 9, 1, 2, 3>>
  /\ cenc = <<251, 5, 4, 9, 9, 1, 2, 3>>

\* C28: for a source of n bytes packbits_encode writes at most
\* n + n/128 + 1 bytes, which is within the n + n/128 + 16 bytes it
\* allocated.
C28_OutputFits ==
  cpc # "c_input" =>
    /\ Len(cenc) <= max_out(Len(crow))
    /\ Len(cenc) <= Len(crow) + (Len(crow) \div 128) + 1

\* a row of more than 128 bytes whose encoding is exactly the worst case
C28_Witness ==
  /\ cpc = "c_encoded"
  /\ Len(crow) > 128
  /\ Len(cenc) = Len(crow) + (Len(crow) \div 128) + 1

\* the packets of a trace, one after the other
RECURSIVE PacketBytes(_)
PacketBytes(tr) ==
  IF tr = <<>> THEN <<>> ELSE Head(tr).pkt \o PacketBytes(Tail(tr))

\* C29: packbits_encode terminates and its packets are well formed: every
\* iteration consumes at least one source byte and the cursor ends at the
\* end of the source; a repeat packet covers 3..128 bytes with a control
\* byte in -127..-2, a literal packet covers 1..128 bytes with a control
\* byte in 0..127, and the control byte -128 is never emitted.
C29_PacketsWellFormed ==
  cpc # "c_input" =>
    LET tr == EncodeTrace(crow, 0) IN
    /\ \A i \in 1..Len(tr) :
         LET st == tr[i]
             ctl == ToInt8(st.pkt[1])
         IN /\ st.n >= 1
            /\ st.si = (IF i = 1 THEN 0 ELSE tr[i - 1].si) + st.n
            /\ ctl # 0 - 128
            /\ st.kind = "run" =>
                 /\ st.n \in 3..128
                 /\ ctl \in (0 - 127)..(0 - 2) /\ ctl = 1 - st.n
                 /\ Len(st.pkt) = 2
            /\ st.kind = "lit" =>
                 /\ st.n \in 1..128
                 /\ ctl \in 0..127 /\ ctl = st.n - 1
                 /\ Len(st.pkt) = 1 + st.n
    /\ (crow # <<>>) => Len(tr) >= 1 /\ tr[Len(tr)].si = Len(crow)
    /\ Len(tr) <= Len(crow)
    /\ cenc = PacketBytes(tr)

\* a row has been encoded as a full repeat packet and a full literal packet
C29_Witness ==
  /\ cpc = "c_encoded"
  /\ LET tr == EncodeTrace(crow, 0) IN
     /\ \E i \in 1..Len(tr) : tr[i].kind = "run" /\ tr[i].n = 128
     /\ \E i \in 1..Len(tr) : tr[i].kind = "lit" /\ tr[i].n = 128


\* ------------------------------------------------------------------------
\* The RLE row loop of iff2bpl on short rows
\* ------------------------------------------------------------------------
\* the row loop has run on a compressed BODY and some row decoded to fewer
\* than row_bytes bytes
ShortRowSeen ==
  /\ iff # NoFile /\ found_body /\ bmhd.compression = 1
  /\ \E i \in DOMAIN rle_rows : rle_rows[i].written < row_bytes(bmhd.width)

\* C24: a row that decodes to fewer than rowBytes bytes does not abort the
\* run: the row loop has run for all height*numPlanes rows, the .bpl
\* artifact has exactly numPlanes*rowBytes*height bytes and the exit status
\* is 0.
C24_ShortRowNoAbort ==
  (pc = "i_done" /\ ShortRowSeen) =>
    /\ Len(rle_rows) = bmhd.height * bmhd.numPlanes
    /\ bpl # NoFile
    /\ Len(bpl) = bmhd.numPlanes * row_bytes(bmhd.width) * bmhd.height
    /\ exit_iff = 0

\* C25: at the start of every row of the RLE row loop src_offset is at most
\* body_size, so body_size - src_offset does not underflow and no byte
\* outside the BODY buffer is read.
C25_CursorInBody ==
  (iff # NoFile /\ found_body) =>
    \A i \in DOMAIN rle_rows : rle_rows[i].src_offset <= Len(body_data)


\* C26: with -t every store of the transpose for (c, y, b) lands in row y
\* of the destination plane, at the in-row offset c*colWidth + b <
\* rowBytes, so that no store reaches a byte of another row.
C26_TransposeInRow ==
  Transposed =>
    \A w \in TransposeStores(args) :
      /\ w[1] * args.transpose_col_width + w[3] < row_bytes(args.xsize)
      /\ TransposeDidx(args, w[1], w[2], w[3]) \div row_bytes(args.xsize) = w[2]


\* ------------------------------------------------------------------------
\* The uncompressed BODY as plane buffer
\* ------------------------------------------------------------------------
\* iff2bpl has taken an uncompressed BODY as its plane buffer
UncompressedBody ==
  /\ iff # NoFile /\ found_bmhd /\ found_body
  /\ bmhd.compression = 0 /\ final_planar_data # Null

\* numPlanes * rowBytes * height of the header read
PlaneBufferSize == bmhd.numPlanes * row_bytes(bmhd.width) * bmhd.height

\* C27: with an uncompressed BODY the plane buffer handed to
\* convert_to_chunky and convert_to_noninterleaved holds at least
\* numPlanes*rowBytes*height bytes: every source index they read is below
\* the BODY buffer size, every index convert_to_noninterleaved writes is
\* below the size of the .bpf buffer, and the .bpf artifact has exactly
\* numPlanes*rowBytes*height bytes.
C27_UncompressedInBounds ==
  UncompressedBody =>
    /\ (opts.create_chunky \/ opts.create_chunky_doubled) =>
         /\ Len(final_planar_data) >= PlaneBufferSize
         /\ ~ChunkyOverrun(final_planar_data, bmhd.width, bmhd.height, bmhd.numPlanes)
    /\ opts.create_noninterleaved =>
         /\ Len(final_planar_data) >= PlaneBufferSize
         /\ ~NiOverrun(final_planar_data, Len(final_planar_data),
                       bmhd.width, bmhd.height, bmhd.numPlanes)
         /\ bpf # NoFile => Len(bpf) = PlaneBufferSize


\* ------------------------------------------------------------------------
\* bpl2iff -i followed by iff2bpl
\* ------------------------------------------------------------------------
\* iff2bpl has ended on the container bpl2iff -i has made of raw input of
\* numPlanes*rowBytes*height bytes
InterleavedRoundTrip ==
  /\ BplRun /\ exit_code = 0 /\ pc = "i_done"
  /\ args.interleaved /\ ~transpose_cols(args)
  /\ Len(infile) = args.bplnum * row_bytes(args.xsize) * args.ysize

\* C30: bpl2iff -i, with or without -r, followed by iff2bpl gives a .bpl
\* artifact equal byte for byte to the raw input; with -r every encoded row
\* decodes to exactly rowBytes bytes and the decode cursor ends at the end
\* of the encoded payload.
C30_EndToEnd ==
  InterleavedRoundTrip =>
    /\ exit_iff = 0
    /\ bpl = infile
    /\ args.use_rle =>
         /\ Len(rle_rows) = args.ysize * args.bplnum
         /\ \A i \in DOMAIN rle_rows :
              rle_rows[i].written = row_bytes(args.xsize)
         /\ LET last == rle_rows[Len(rle_rows)] IN
            last.src_offset + last.consumed = Len(body_to_write)
====
